---- MODULE Spec2Model ----
(***************************************************************************)
(* A model of the Hewalex PCWU add-on: the GECO packet codec               *)
(* (geco_protocol.py), the config register map (pcwu_registers.py) and     *)
(* the connection session / polling orchestrator (main.py).                *)
(*                                                                         *)
(* Bytes are integers 0..255, byte strings are sequences of bytes, a       *)
(* register block is a sequence of 16-bit words.  Sequences are 1-based:   *)
(* Python's data[i] is data[i+1].  Python's None is NoPacket where a       *)
(* packet dict is expected, NoRegs where a register list is expected and   *)
(* Absent for a key a dict lacks.                                          *)
(***************************************************************************)
EXTENDS Integers, Sequences, FiniteSets, TLC

\* None in place of a parsed packet
NoPacket == [ none |-> TRUE ]

\* None in place of a register list (no list of 16-bit words equals it)
NoRegs == << -1 >>

\* the value of a numeric key that a packet dict does not have
Absent == -1

Min(a, b) == IF a < b THEN a ELSE b

(***************************************************************************)
(* Bit operations on non-negative integers (Python's ^, &, <<, >>).        *)
(***************************************************************************)
RECURSIVE BitXor(_, _)
BitXor(a, b) ==
    IF a = 0 THEN b
    ELSE IF b = 0 THEN a
    ELSE (((a % 2) + (b % 2)) % 2) + 2 * BitXor(a \div 2, b \div 2)

\* a ^ b on bytes, tabulated once
XorTable == [a \in 0..255 |-> [b \in 0..255 |-> BitXor(a, b)]]

\* a ^ b on values below 2^16
Xor(a, b) ==
    XorTable[a % 256][b % 256] + (256 * XorTable[a \div 256][b \div 256])

RECURSIVE Pow2(_)
Pow2(n) == IF n = 0 THEN 1 ELSE 2 * Pow2(n - 1)

Shl(a, n) == a * Pow2(n)
Shr(a, n) == a \div Pow2(n)

(***************************************************************************)
(* geco_protocol.py: constants                                             *)
(***************************************************************************)
START_BYTE == 105            \* 0x69
HEADER_FIXED_BYTE == 132     \* 0x84
HEADER_LEN == 8
PL_DST_SOFT == 0
PL_SRC_SOFT == 2
PL_FNC == 4
PL_SUB_FNC == 5
PL_REG_COUNT == 7
PL_REG_START_LO == 8
PL_REG_START_HI == 9
PL_DATA_START == 10
FNC_READ_STATUS_REQ == 64    \* 0x40
FNC_READ_STATUS_RESP == 80   \* 0x50
FNC_READ_CONFIG_REQ == 96    \* 0x60
FNC_READ_CONFIG_RESP == 112  \* 0x70
SUB_FNC_READ == 128          \* 0x80
SUB_FNC_WRITE == 160         \* 0xA0

(***************************************************************************)
(* geco_protocol.py: the two checksums                                     *)
(***************************************************************************)
\* one of the 8 rounds of crc8_dvb_s2
Crc8Round(crc) ==
    IF (crc \div 128) % 2 = 1
    THEN Xor(Shl(crc, 1), 213) % 256
    ELSE Shl(crc, 1) % 256

\* the 8 rounds on the value of crc ^ byte, tabulated once
Crc8Rounds ==
    [ c \in 0..255 |->
        Crc8Round(Crc8Round(Crc8Round(Crc8Round(
        Crc8Round(Crc8Round(Crc8Round(Crc8Round(c)))))))) ]

\* crc ^= byte; then 8 rounds
Crc8Byte(crc, byte) == Crc8Rounds[Xor(crc, byte)]

\* the loop over data[lo..hi], split in halves (and the left half evaluated
\* first) to keep the evaluation shallow
RECURSIVE Crc8From(_, _, _, _)
Crc8From(data, lo, hi, crc) ==
    IF lo > hi THEN crc
    ELSE IF lo = hi THEN Crc8Byte(crc, data[lo])
    ELSE LET mid == (lo + hi) \div 2
             left == Crc8From(data, lo, mid, crc)
         IN  IF left >= 0 THEN Crc8From(data, mid + 1, hi, left) ELSE left

crc8_dvb_s2(data, crc) == Crc8From(data, 1, Len(data), crc)

\* x ^= (x >> 4), tabulated once
Crc16Fold == [ x \in 0..255 |-> Xor(x, Shr(x, 4)) ]

\* (x >> 3) ^ (x << 4), tabulated once
Crc16Msb == [ x \in 0..255 |-> Xor(Shr(x, 3), Shl(x, 4)) ]

\* x ^ (x << 5), tabulated once
Crc16Lsb == [ x \in 0..255 |-> Xor(x, Shl(x, 5)) ]

\* one iteration of crc16's loop on the pair <<msb, lsb>>
Crc16Byte(ml, byte) ==
    LET x == Crc16Fold[Xor(byte, ml[1])]
    IN  << Xor(ml[2], Crc16Msb[x]) % 256, Crc16Lsb[x] % 256 >>

RECURSIVE Crc16From(_, _, _, _)
Crc16From(data, lo, hi, ml) ==
    IF lo > hi THEN ml
    ELSE IF lo = hi THEN Crc16Byte(ml, data[lo])
    ELSE LET mid == (lo + hi) \div 2
             left == Crc16From(data, lo, mid, ml)
         IN  IF left[1] >= 0 THEN Crc16From(data, mid + 1, hi, left) ELSE left

\* crc16 that starts from zero whatever the seed
crc16_unseeded(data, crc) ==
    LET Join(ml) == Shl(ml[1], 8) + ml[2]
    IN  Join(Crc16From(data, 1, Len(data), << 0, 0 >>))

crc16(data, crc) ==
    LET Join(ml) == Shl(ml[1], 8) + ml[2]
    IN  Join(Crc16From(data, 1, Len(data), << Shr(crc, 8) % 256, crc % 256 >>))

\* struct.pack('>H', v)
PackBE16(v) == << (v \div 256) % 256, v % 256 >>

\* struct.unpack('>H', two bytes)
UnpackBE16(hi, lo) == hi * 256 + lo

(***************************************************************************)
(* geco_protocol.py: building packets                                      *)
(***************************************************************************)
\* build_header counting the payload without its two checksum bytes
build_header_without_crc_len(dst_hard, src_hard, payload_len) ==
    LET header_data == << START_BYTE, dst_hard, src_hard, HEADER_FIXED_BYTE,
                          0, 0, (payload_len - 2) % 256 >>
    IN  header_data \o << crc8_dvb_s2(header_data, 0) >>

build_header(dst_hard, src_hard, payload_len) ==
    LET header_data == << START_BYTE, dst_hard, src_hard, HEADER_FIXED_BYTE,
                          0, 0, payload_len % 256 >>
    IN  header_data \o << crc8_dvb_s2(header_data, 0) >>

build_payload(dst_soft, src_soft, fnc, data) ==
    LET payload_no_crc == << dst_soft, 0, src_soft, 0, fnc >> \o data
    IN  payload_no_crc \o PackBE16(crc16(payload_no_crc, 0))

\* build_read_request writing the register start high byte first
build_read_request_be(dst_hard, src_hard, dst_soft, src_soft, fnc, reg_start, reg_count) ==
    LET func_data == << SUB_FNC_READ, 0, reg_count % 256,
                        Shr(reg_start, 8) % 256, reg_start % 256 >>
        Packet(payload) == build_header(dst_hard, src_hard, Len(payload)) \o payload
    IN  Packet(build_payload(dst_soft, src_soft, fnc, func_data))

build_read_request(dst_hard, src_hard, dst_soft, src_soft, fnc, reg_start, reg_count) ==
    LET func_data == << SUB_FNC_READ, 0, reg_count % 256,
                        reg_start % 256, Shr(reg_start, 8) % 256 >>
        Packet(payload) == build_header(dst_hard, src_hard, Len(payload)) \o payload
    IN  Packet(build_payload(dst_soft, src_soft, fnc, func_data))

\* a write-back that carries one word more than the block
build_write_request_padded(dst_hard, src_hard, dst_soft, src_soft, reg_start, reg_count, reg_data) ==
    LET func_data == << SUB_FNC_WRITE, 0, reg_count % 256,
                        reg_start % 256, Shr(reg_start, 8) % 256 >>
                     \o reg_data \o << 0, 0 >>
        Packet(payload) == build_header(dst_hard, src_hard, Len(payload)) \o payload
    IN  Packet(build_payload(dst_soft, src_soft, FNC_READ_CONFIG_REQ, func_data))

\* a write-back sent with the function code of the status registers
build_write_request_status(dst_hard, src_hard, dst_soft, src_soft, reg_start, reg_count, reg_data) ==
    LET func_data == << SUB_FNC_WRITE, 0, reg_count % 256,
                        reg_start % 256, Shr(reg_start, 8) % 256 >> \o reg_data
        Packet(payload) == build_header(dst_hard, src_hard, Len(payload)) \o payload
    IN  Packet(build_payload(dst_soft, src_soft, FNC_READ_STATUS_REQ, func_data))

build_write_request(dst_hard, src_hard, dst_soft, src_soft, reg_start, reg_count, reg_data) ==
    LET func_data == << SUB_FNC_WRITE, 0, reg_count % 256,
                        reg_start % 256, Shr(reg_start, 8) % 256 >> \o reg_data
        Packet(payload) == build_header(dst_hard, src_hard, Len(payload)) \o payload
    IN  Packet(build_payload(dst_soft, src_soft, FNC_READ_CONFIG_REQ, func_data))

(***************************************************************************)
(* geco_protocol.py: parsing                                               *)
(***************************************************************************)
\* Python's data[a:b] for 0 <= a, 0 <= b
Slice(data, a, b) == SubSeq(data, a + 1, Min(b, Len(data)))

\* Python's data[a:]
SliceFrom(data, a) == SubSeq(data, a + 1, Len(data))

\* the result dict of parse_packet; a numeric key the dict lacks holds Absent,
\* and has_reg_data tells whether the key 'reg_data' is in the dict
PacketDict(dst_hard, src_hard, payload_len, payload_data) ==
    LET fnc == payload_data[PL_FNC + 1]
        has_regs == Len(payload_data) >= PL_DATA_START
        is_resp == fnc \in {FNC_READ_STATUS_RESP, FNC_READ_CONFIG_RESP}
    IN  [ dst_hard |-> dst_hard,
          src_hard |-> src_hard,
          dst_soft |-> payload_data[PL_DST_SOFT + 1],
          src_soft |-> payload_data[PL_SRC_SOFT + 1],
          fnc |-> fnc,
          raw_payload |-> payload_data,
          total_len |-> HEADER_LEN + payload_len,
          sub_fnc |-> IF has_regs THEN payload_data[PL_SUB_FNC + 1] ELSE Absent,
          reg_start |-> IF has_regs
                        THEN payload_data[PL_REG_START_LO + 1]
                             + Shl(payload_data[PL_REG_START_HI + 1], 8)
                        ELSE Absent,
          reg_count |-> IF has_regs THEN payload_data[PL_REG_COUNT + 1] ELSE Absent,
          has_reg_data |-> has_regs /\ is_resp,
          reg_data |-> IF has_regs /\ is_resp
                       THEN SliceFrom(payload_data, PL_DATA_START)
                       ELSE << >> ]

\* parse_packet without the comparison of the header checksum
HeaderCrcIgnored(data) == TRUE

\* parse_packet without the comparison of the payload checksum
PayloadCrcIgnored(payload) == TRUE

HeaderCrcOk(data) == crc8_dvb_s2(Slice(data, 0, 7), 0) = data[8]

PayloadCrcOk(payload) ==
    crc16(Slice(payload, 0, Len(payload) - 2), 0)
        = UnpackBE16(payload[Len(payload) - 1], payload[Len(payload)])

parse_packet(data) ==
    IF Len(data) < HEADER_LEN + 7 THEN NoPacket
    ELSE IF data[1] # START_BYTE THEN NoPacket
    ELSE IF ~HeaderCrcOk(data) THEN NoPacket
    ELSE LET payload_len == data[7]
         IN  IF Len(data) < HEADER_LEN + payload_len THEN NoPacket
             ELSE LET payload == Slice(data, HEADER_LEN, HEADER_LEN + payload_len)
                  IN  IF Len(payload) < 7 THEN NoPacket
                      ELSE IF ~PayloadCrcOk(payload) THEN NoPacket
                      ELSE PacketDict(data[2], data[3], payload_len,
                                      Slice(payload, 0, Len(payload) - 2))

\* buffer.find(bytes([START_BYTE]), pos): the first index >= pos holding the
\* marker, -1 when there is none (0-based)
FindStart(buffer, pos) ==
    LET hits == { i \in pos..(Len(buffer) - 1) : buffer[i + 1] = START_BYTE }
    IN  IF hits = {} THEN -1 ELSE CHOOSE i \in hits : \A j \in hits : i <= j

\* the while loop of find_packets, from scan position pos with the packets
\* found so far
RECURSIVE FindLoop(_, _, _)
FindLoop(buffer, pos, packets) ==
    IF pos >= Len(buffer) THEN packets
    ELSE LET idx == FindStart(buffer, pos)
         IN  IF idx = -1 THEN packets
             ELSE LET remaining == SliceFrom(buffer, idx)
                  IN  IF Len(remaining) < HEADER_LEN THEN packets
                      ELSE LET total_len == HEADER_LEN + remaining[7]
                           IN  IF Len(remaining) < total_len THEN packets
                               ELSE LET Scan(parsed) ==
                                            IF parsed # NoPacket
                                            THEN FindLoop(buffer, idx + total_len,
                                                     Append(packets, << parsed, idx + total_len >>))
                                            ELSE FindLoop(buffer, idx + 1, packets)
                                    IN  Scan(parse_packet(Slice(remaining, 0, total_len)))

\* a failed parse that leaves the scan position on the candidate marker
FindStepStuck(buffer, pos, packets) ==
    [ stop |-> pos >= Len(buffer) \/ FindStart(buffer, pos) = -1,
      pos |-> IF pos >= Len(buffer) THEN pos ELSE FindStart(buffer, pos),
      packets |-> packets ]

\* one evaluation of "while pos < len(buffer)" and, when it holds, one run
\* of the loop body: stop tells that the loop ended (the condition failed
\* or a break was taken), pos and packets are the locals afterwards
FindStep(buffer, pos, packets) ==
    LET Ends == [ stop |-> TRUE, pos |-> pos, packets |-> packets ]
        Body(idx) ==
            IF idx = -1 THEN Ends
            ELSE IF Len(buffer) - idx < HEADER_LEN THEN Ends
            ELSE IF Len(buffer) - idx < HEADER_LEN + buffer[idx + 7] THEN Ends
            ELSE IF parse_packet(Slice(buffer, idx, idx + HEADER_LEN + buffer[idx + 7]))
                        # NoPacket
            THEN [ stop |-> FALSE, pos |-> idx + HEADER_LEN + buffer[idx + 7],
                   packets |-> Append(packets,
                       << parse_packet(Slice(buffer, idx,
                                             idx + HEADER_LEN + buffer[idx + 7])),
                          idx + HEADER_LEN + buffer[idx + 7] >>) ]
            ELSE [ stop |-> FALSE, pos |-> idx + 1, packets |-> packets ]
    IN  IF pos >= Len(buffer) THEN Ends ELSE Body(FindStart(buffer, pos))

\* find_packets scanning from the first marker and counting positions from it
find_packets_unshifted(buffer) ==
    IF FindStart(buffer, 0) = -1 THEN << >>
    ELSE FindLoop(SliceFrom(buffer, FindStart(buffer, 0)), 0, << >>)

\* find_packets returning the packets last first
find_packets_reversed(buffer) ==
    LET Reversed(packets) ==
            [ i \in 1..Len(packets) |-> packets[Len(packets) + 1 - i] ]
    IN  Reversed(FindLoop(buffer, 0, << >>))

find_packets(buffer) == FindLoop(buffer, 0, << >>)

extract_registers(reg_data, count) ==
    [ i \in 1..Min(count, Len(reg_data) \div 2) |->
        UnpackBE16(reg_data[2 * i - 1], reg_data[2 * i]) ]

\* registers_to_bytes packing each word low byte first
registers_to_bytes_le(registers) ==
    [ k \in 1..(2 * Len(registers)) |->
        PackBE16(registers[(k + 1) \div 2] % 65536)[1 + (k % 2)] ]

\* byte k of the result is the high (k odd) or low (k even) byte of word (k+1)/2
registers_to_bytes(registers) ==
    [ k \in 1..(2 * Len(registers)) |->
        PackBE16(registers[(k + 1) \div 2] % 65536)[2 - (k % 2)] ]

\* the word read as it stands, without the sign
signed16_unsigned(value) == value

signed16(value) == IF value >= 32768 THEN value - 65536 ELSE value

(***************************************************************************)
(* pcwu_registers.py: the config register map and encode_config_value      *)
(***************************************************************************)
STATUS_REG_BASE == 100
STATUS_REG_COUNT == 50
CONFIG_REG_BASE == 300
CONFIG_REG_COUNT == 50

Reg(offset, name, dtype, writable, min_val, max_val) ==
    [ offset |-> offset, name |-> name, dtype |-> dtype,
      writable |-> writable, min_val |-> min_val, max_val |-> max_val ]

CONFIG_REGISTERS == <<
    Reg(0,  "InstallationScheme",     "word", FALSE, 1, 9),
    Reg(1,  "HeatPumpEnabled",        "bool", TRUE,  0, 1),
    Reg(2,  "HeaterEEnabled",         "bool", TRUE,  0, 1),
    Reg(3,  "HeaterEPowerLimit",      "word", TRUE,  0, 3),
    Reg(4,  "TapWaterSensor",         "word", TRUE,  0, 2),
    Reg(5,  "TapWaterTemp",           "te10", TRUE,  100, 600),
    Reg(6,  "TapWaterHysteresis",     "te10", TRUE,  20, 100),
    Reg(7,  "AmbientMinTemp",         "te10", TRUE,  -100, 100),
    Reg(8,  "TimeProgramHPM_F_hi",    "word", TRUE,  0, 65535),
    Reg(9,  "TimeProgramHPM_F_lo",    "word", TRUE,  0, 65535),
    Reg(10, "TimeProgramHPSat_hi",    "word", TRUE,  0, 65535),
    Reg(11, "TimeProgramHPSat_lo",    "word", TRUE,  0, 65535),
    Reg(12, "TimeProgramHPSun_hi",    "word", TRUE,  0, 65535),
    Reg(13, "TimeProgramHPSun_lo",    "word", TRUE,  0, 65535),
    Reg(14, "AntiFreezingEnabled",    "bool", TRUE,  0, 1),
    Reg(15, "WaterPumpOperationMode", "word", TRUE,  0, 1),
    Reg(16, "FanOperationMode",       "word", TRUE,  0, 2),
    Reg(17, "DefrostingInterval",     "word", TRUE,  30, 90),
    Reg(18, "DefrostingStartTemp",    "te10", TRUE,  -300, 0),
    Reg(19, "DefrostingStopTemp",     "te10", TRUE,  20, 300),
    Reg(20, "DefrostingMaxTime",      "word", TRUE,  1, 12),
    Reg(21, "ExtControllerHPOFF",     "bool", TRUE,  0, 1),
    Reg(22, "CircPumpMinTemp",        "te10", TRUE,  200, 600),
    Reg(23, "CircPumpMode",           "word", TRUE,  0, 1) >>

(* A user value is [kind, v100, s]:                                        *)
(*   kind "num":  a Python int or float, v100 its value in hundredths;     *)
(*   kind "bool": a Python bool, v100 = 100 for True and 0 for False;      *)
(*   kind "str":  the Python string s;                                     *)
(*   kind "nan":  float('nan'), which float(payload) of the MQTT number    *)
(*                handler returns for the payload "nan".                   *)
NumValue(v100) == [ kind |-> "num", v100 |-> v100, s |-> "" ]
NanValue == [ kind |-> "nan", v100 |-> 0, s |-> "" ]
BoolValue(b) == [ kind |-> "bool", v100 |-> IF b THEN 100 ELSE 0, s |-> "" ]
StrValue(s) == [ kind |-> "str", v100 |-> 0, s |-> s ]

\* rounding toward zero, as int() of a float does
Trunc(n, d) == IF n >= 0 THEN n \div d ELSE -((-n) \div d)

\* the strings float() and int() accept, with their value in hundredths
NumericStrings == [ s \in {"45", "1"} |-> IF s = "45" THEN 4500 ELSE 100 ]

\* the lower-case forms that the bool branch reads as true
TrueStrings == {"true", "1", "on", "yes"}

\* str.lower() on the strings of the model
Lower(s) == IF s = "ON" THEN "on" ELSE IF s = "True" THEN "true" ELSE s

\* the results of encode_config_value
Encoded(offset, raw) == [ kind |-> "ok", offset |-> offset, raw |-> raw ]
EncodeNone == [ kind |-> "none", offset |-> -1, raw |-> -1 ]
EncodeRaises == [ kind |-> "raise", offset |-> -1, raw |-> -1 ]

\* int(float(user_value) * 10) and int(user_value) raise ValueError on these
RaisesOnNumber(user_value) ==
    \/ user_value.kind = "nan"
    \/ user_value.kind = "str" /\ user_value.s \notin DOMAIN NumericStrings

\* the value in hundredths that float(user_value) / int(user_value) start from
Hundredths(user_value) ==
    IF user_value.kind = "str" THEN NumericStrings[user_value.s] ELSE user_value.v100

\* the range check made on the 16-bit word instead of the logical value
RangeOnWord(entry, check_val) ==
    ~((check_val % 65536) < entry.min_val \/ (check_val % 65536) > entry.max_val)

\* the range check left out
RangeUnchecked(entry, check_val) == TRUE

\* the range check on the logical value
RangeOk(entry, check_val) ==
    ~(check_val < entry.min_val \/ check_val > entry.max_val)

\* the loop body of encode_config_value for the entry whose name matches
EncodeEntry(entry, user_value) ==
    IF ~entry.writable THEN EncodeNone
    ELSE IF entry.dtype = "te10"
    THEN IF RaisesOnNumber(user_value) THEN EncodeRaises
         ELSE LET raw == Trunc(Hundredths(user_value), 10)   \* int(float(v) * 10)
              IN  IF RangeOk(entry, raw)
                  THEN Encoded(entry.offset, raw % 65536)
                  ELSE EncodeNone
    ELSE IF entry.dtype = "bool"
    THEN LET raw == IF user_value.kind = "str"
                    THEN (IF Lower(user_value.s) \in TrueStrings THEN 1 ELSE 0)
                    ELSE (IF user_value.kind = "nan" \/ user_value.v100 # 0
                          THEN 1 ELSE 0)
         IN  IF RangeOk(entry, raw)
             THEN Encoded(entry.offset, raw % 65536)
             ELSE EncodeNone
    ELSE IF RaisesOnNumber(user_value) THEN EncodeRaises
         ELSE LET raw == Trunc(Hundredths(user_value), 100)  \* int(v)
              IN  IF RangeOk(entry, raw)
                  THEN Encoded(entry.offset, raw % 65536)
                  ELSE EncodeNone

encode_config_value(name, user_value) ==
    LET hits == { i \in DOMAIN CONFIG_REGISTERS : CONFIG_REGISTERS[i].name = name }
    IN  IF hits = {} THEN EncodeNone
        ELSE EncodeEntry(CONFIG_REGISTERS[CHOOSE i \in hits : \A j \in hits : i <= j],
                         user_value)

(***************************************************************************)
(* main.py: SerialConnection.read_packet                                   *)
(***************************************************************************)
READ_CHUNK == 256       \* self.ser.read(256)
BUFFER_CAP == 2048      \* if len(buffer) > 2048
BUFFER_TAIL == 512      \* buffer = buffer[-512:]

\* the for loop returning the first parsed packet whatever its function code
FirstPacket(packets, expected_fnc) == IF packets = << >> THEN 0 ELSE 1

\* the for loop over the parsed packets: the first one with the expected
\* function code (its index in packets), 0 when there is none
FirstMatch(packets, expected_fnc) ==
    LET hits == { i \in DOMAIN packets : packets[i][1].fnc = expected_fnc }
    IN  IF hits = {} THEN 0 ELSE CHOOSE i \in hits : \A j \in hits : i <= j

\* max(end for _, end in packets)
LastEnd(packets) ==
    CHOOSE e \in { packets[i][2] : i \in DOMAIN packets } :
        \A i \in DOMAIN packets : packets[i][2] <= e

\* the buffer after "trim processed data" and the size cap
TrimBuffer(buffer, packets) ==
    LET trimmed == IF packets # << >> THEN SliceFrom(buffer, LastEnd(packets))
                   ELSE buffer
    IN  IF Len(trimmed) > BUFFER_CAP
        THEN SliceFrom(trimmed, Len(trimmed) - BUFFER_TAIL)
        ELSE trimmed

\* one iteration of read_packet's while loop with the chunk that ser.read
\* returned: the packet returned (NoPacket: keep waiting) and the new buffer
ReadStep(buffer, chunk, expected_fnc) ==
    LET buf == buffer \o chunk
        Pick(packets, m) ==
            IF m # 0
            THEN [ found |-> packets[m][1], buffer |-> buf ]
            ELSE [ found |-> NoPacket, buffer |-> TrimBuffer(buf, packets) ]
        Match(packets) == Pick(packets, FirstMatch(packets, expected_fnc))
    IN  IF buf = << >> THEN [ found |-> NoPacket, buffer |-> buf ]
        ELSE Match(find_packets(buf))

\* read_packet when the reads before the timeout return chunks[i], ...
RECURSIVE ReadLoop(_, _, _, _)
ReadLoop(chunks, i, buffer, expected_fnc) ==
    IF i > Len(chunks) THEN NoPacket        \* timeout: return None
    ELSE LET After(step) ==
                 IF step.found # NoPacket THEN step.found
                 ELSE ReadLoop(chunks, i + 1, step.buffer, expected_fnc)
         IN  After(ReadStep(buffer, chunks[i], expected_fnc))

read_packet(chunks, expected_fnc) == ReadLoop(chunks, 1, << >>, expected_fnc)

(***************************************************************************)
(* main.py: configuration                                                  *)
(***************************************************************************)
CON_HARD_ID == 1
CON_SOFT_ID == 1
DEV_HARD_ID == 2
DEV_SOFT_ID == 2
MIN_STATUS_REGS == 14   \* if len(raw_regs) >= 14
MIN_CONFIG_REGS == 10   \* if len(raw_regs) >= 10
BACKOFF_STEP == 5       \* consecutive_errors * 5
BACKOFF_MAX == 60       \* min(..., 60)
ERROR_SLEEP == 5        \* time.sleep(5) after an unexpected error
EAVESDROP_READ == 512   \* conn.ser.read(512)
EAVESDROP_CAP == 4096   \* if len(buffer) > 4096
EAVESDROP_TAIL == 2048  \* buffer = buffer[-2048:]

(***************************************************************************)
(* The bounds of the model, the commands that arrive and the replies of    *)
(* the device.                                                             *)
(***************************************************************************)
MaxQueue == 2       \* commands waiting in write_queue
MaxErrors == 3      \* consecutive errors that the model follows
BlockLen == 10      \* registers in a config block of the device
ShortLen == 2       \* registers in a truncated config response
FullExtra == 14     \* registers of the long config block beyond BlockLen
JunkLen == 2060     \* bytes of line noise in the longest stream
MaxAccepted == 3    \* commands on_ha_command appends in a behaviour that records them

Command(name, value) == [ name |-> name, value |-> value ]

\* the commands a write call is tried on: two valid ones, a non-writable
\* register, an unknown name, a value out of range, a register beyond a
\* block of BlockLen words, two values that are no number
WriteCommands ==
    { Command("HeatPumpEnabled", BoolValue(TRUE)),
      Command("AmbientMinTemp", NumValue(-500)),
      Command("InstallationScheme", NumValue(300)),
      Command("NoSuchRegister", NumValue(100)),
      Command("TapWaterTemp", NumValue(7000)),
      Command("CircPumpMode", NumValue(100)),
      Command("DefrostingInterval", StrValue("abc")),
      Command("TapWaterTemp", NanValue) }

\* the commands on_ha_command receives in the session: a switch, a number
\* out of range and the number payload "nan"
Commands ==
    { Command("HeatPumpEnabled", BoolValue(TRUE)),
      Command("TapWaterTemp", NumValue(7000)),
      Command("TapWaterTemp", NanValue) }

NoCommand == Command("", NumValue(0))

\* two contents of the device's config block; word 8 holds the marker bytes
DeviceBlockA ==
    [ i \in 1..BlockLen |->
        IF i = 1 THEN 3 ELSE IF i = 6 THEN 450 ELSE IF i = 9 THEN 26985 ELSE 0 ]

DeviceBlockB ==
    [ i \in 1..BlockLen |->
        IF i = 1 THEN 3 ELSE IF i = 6 THEN 500 ELSE IF i = 9 THEN 26985 ELSE 0 ]

\* a block that holds every defined config register
DeviceBlockFull ==
    [ i \in 1..(BlockLen + FullExtra) |-> IF i = 1 THEN 3 ELSE IF i = 6 THEN 450 ELSE i ]

\* a response packet of the device carrying regs
ResponsePacket(fnc, reg_start, regs) ==
    LET func_data == << SUB_FNC_READ, 0, Len(regs) % 256,
                        reg_start % 256, Shr(reg_start, 8) % 256 >>
                     \o registers_to_bytes(regs)
        Packet(payload) == build_header(CON_HARD_ID, DEV_HARD_ID, Len(payload)) \o payload
    IN  Packet(build_payload(CON_SOFT_ID, DEV_SOFT_ID, fnc, func_data))

ConfigResponse(regs) == ResponsePacket(FNC_READ_CONFIG_RESP, CONFIG_REG_BASE, regs)

StatusResponse(n) ==
    ResponsePacket(FNC_READ_STATUS_RESP, STATUS_REG_BASE, [ i \in 1..n |-> 200 + i ])

\* the register block that a write request carries
RequestBlock(request) ==
    extract_registers(Slice(request, HEADER_LEN + PL_DATA_START, Len(request) - 2),
                      request[HEADER_LEN + PL_REG_COUNT + 1])

\* the replies that do not depend on the request
FixedReplies ==
    [ kind \in {"silent", "blockA", "blockB", "short", "empty", "status_ok",
                "status_short"} |->
        CASE kind = "silent" -> << >>
          [] kind = "blockA" -> ConfigResponse(DeviceBlockA)
          [] kind = "blockB" -> ConfigResponse(DeviceBlockB)
          [] kind = "short" -> ConfigResponse(SubSeq(DeviceBlockA, 1, ShortLen))
          [] kind = "empty" -> ConfigResponse(<< >>)
          [] kind = "status_ok" -> StatusResponse(MIN_STATUS_REGS)
          [] kind = "status_short" -> StatusResponse(MIN_STATUS_REGS - 1) ]

\* the bytes that arrive after the request, by the device's behaviour:
\* "echo" answers a write with the block it carried, "stray_echo" does so
\* after a status response of the bus, the others do not look at the request
DeviceReply(kind, request) ==
    CASE kind = "echo" -> ConfigResponse(RequestBlock(request))
      [] kind = "stray_echo" ->
            FixedReplies["status_ok"] \o ConfigResponse(RequestBlock(request))
      [] OTHER -> FixedReplies[kind]

WriteReplies == {"silent", "echo", "blockA", "short", "empty", "stray_echo"}
ConfigReplies == {"silent", "blockA", "blockB", "short"}
StatusReplies == {"silent", "status_ok", "status_short"}


(***************************************************************************)
(* main.py: send_and_receive, read_status, read_config                     *)
(***************************************************************************)
(* What the transport does during one exchange: fail tells that the read   *)
(* after the send raises serial.SerialException, kind is the behaviour of  *)
(* the device, which decides the bytes that arrive before the timeout.     *)
Exchange(fail, kind) == [ fail |-> fail, kind |-> kind ]

\* the transport's behaviours during an exchange
Exchanges(kinds) ==
    { Exchange(TRUE, "silent") } \cup { Exchange(FALSE, k) : k \in kinds }

\* send_and_receive: "raise" for a SerialException, else read_packet's result
send_and_receive(request, expected_fnc, env) ==
    IF env.fail THEN [ raised |-> TRUE, resp |-> NoPacket ]
    ELSE LET Receive(rx) ==
                 [ raised |-> FALSE,
                   resp |-> read_packet(IF rx = << >> THEN << >> ELSE << rx >>,
                                        expected_fnc) ]
         IN  Receive(DeviceReply(env.kind, request))

\* resp.get('reg_count', default)
GetRegCount(resp, default) ==
    IF resp.reg_count = Absent THEN default ELSE resp.reg_count

\* resp and 'reg_data' in resp
HasRegData(resp) == resp # NoPacket /\ resp.has_reg_data

\* read_status / read_config after the exchange: the register list or None
ReadResult(resp, default_count, min_regs) ==
    IF HasRegData(resp)
    THEN LET Checked(raw_regs) ==
                 IF Len(raw_regs) >= min_regs THEN raw_regs ELSE NoRegs
         IN  Checked(extract_registers(resp.reg_data,
                                       GetRegCount(resp, default_count)))
    ELSE NoRegs

StatusRequest ==
    build_read_request(DEV_HARD_ID, CON_HARD_ID, DEV_SOFT_ID, CON_SOFT_ID,
                       FNC_READ_STATUS_REQ, STATUS_REG_BASE, STATUS_REG_COUNT)

ConfigRequest ==
    build_read_request(DEV_HARD_ID, CON_HARD_ID, DEV_SOFT_ID, CON_SOFT_ID,
                       FNC_READ_CONFIG_REQ, CONFIG_REG_BASE, CONFIG_REG_COUNT)

\* read_status raising when no response matched instead of returning None
read_status_raising(env) ==
    LET Result(r) ==
            [ raised |-> r.raised \/ r.resp = NoPacket, answered |-> FALSE,
              regs |-> NoRegs ]
    IN  Result(send_and_receive(StatusRequest, FNC_READ_STATUS_RESP, env))

\* [raised, answered, regs]: answered tells that read_packet returned a packet
read_status(env) ==
    LET Result(r) ==
            [ raised |-> r.raised,
              answered |-> ~r.raised /\ r.resp # NoPacket,
              regs |-> IF r.raised THEN NoRegs
                       ELSE ReadResult(r.resp, STATUS_REG_COUNT, MIN_STATUS_REGS) ]
    IN  Result(send_and_receive(StatusRequest, FNC_READ_STATUS_RESP, env))

read_config(env) ==
    LET Result(r) ==
            [ raised |-> r.raised,
              answered |-> ~r.raised /\ r.resp # NoPacket,
              regs |-> IF r.raised THEN NoRegs
                       ELSE ReadResult(r.resp, CONFIG_REG_COUNT, MIN_CONFIG_REGS) ]
    IN  Result(send_and_receive(ConfigRequest, FNC_READ_CONFIG_RESP, env))

(***************************************************************************)
(* main.py: write_config_register                                          *)
(***************************************************************************)
(* The outcome of one call: cache is cached_config_regs when the call      *)
(* ends, sent the request put on the wire (empty: nothing sent), ret the   *)
(* return value, raised the exception that ends the call ("none",          *)
(* "serial" or "value"), confirmed the registers of the response (NoRegs:  *)
(* no response with register data), path the branch taken.                 *)
WriteOutcome(cache, sent, ret, raised, offset, raw, confirmed, path) ==
    [ cache |-> cache, sent |-> sent, ret |-> ret, raised |-> raised,
      offset |-> offset, raw |-> raw, confirmed |-> confirmed, path |-> path ]

\* cached_config_regs[reg_offset] = raw_value
SetRegister(regs, reg_offset, raw_value) ==
    [ regs EXCEPT ![reg_offset + 1] = raw_value ]

\* the write-back request with the full modified block
WriteRequest(regs) ==
    build_write_request(DEV_HARD_ID, CON_HARD_ID, DEV_SOFT_ID, CON_SOFT_ID,
                        CONFIG_REG_BASE, Len(regs), registers_to_bytes(regs))

\* the confirmation branch without "cached_config_regs = confirmed_regs"
WriteConfirmKeepsLocal(modified, req, reg_offset, raw_value, resp) ==
    LET Verify(confirmed_regs) ==
            IF confirmed_regs # << >>
            THEN IF reg_offset < Len(confirmed_regs)
                 THEN IF confirmed_regs[reg_offset + 1] = raw_value
                      THEN WriteOutcome(modified, req, TRUE, "none", reg_offset,
                                        raw_value, confirmed_regs, "confirmed")
                      ELSE WriteOutcome(modified, req, FALSE, "none", reg_offset,
                                        raw_value, confirmed_regs, "mismatch")
                 ELSE WriteOutcome(modified, req, TRUE, "none", reg_offset,
                                   raw_value, confirmed_regs, "unverified")
            ELSE WriteOutcome(modified, req, TRUE, "none", reg_offset,
                              raw_value, confirmed_regs, "unverified")
    IN  Verify(extract_registers(resp.reg_data, GetRegCount(resp, CONFIG_REG_COUNT)))

\* the branch "if resp and 'reg_data' in resp" of write_config_register
WriteConfirm(modified, req, reg_offset, raw_value, resp) ==
    LET Verify(confirmed_regs) ==
            IF confirmed_regs # << >>
            THEN IF reg_offset < Len(confirmed_regs)
                 THEN IF confirmed_regs[reg_offset + 1] = raw_value
                      THEN WriteOutcome(confirmed_regs, req, TRUE, "none", reg_offset,
                                        raw_value, confirmed_regs, "confirmed")
                      ELSE WriteOutcome(confirmed_regs, req, FALSE, "none", reg_offset,
                                        raw_value, confirmed_regs, "mismatch")
                 ELSE WriteOutcome(confirmed_regs, req, TRUE, "none", reg_offset,
                                   raw_value, confirmed_regs, "unverified")
            ELSE WriteOutcome(modified, req, TRUE, "none", reg_offset,
                              raw_value, confirmed_regs, "unverified")
    IN  Verify(extract_registers(resp.reg_data, GetRegCount(resp, CONFIG_REG_COUNT)))

\* write_config_register from "Modify the cached block" on
WriteExchange(cache, reg_offset, raw_value, env) ==
    LET old_value == cache[reg_offset + 1]
        Respond(modified, req, r) ==
            IF r.raised
            THEN WriteOutcome(modified, req, FALSE, "serial", reg_offset, raw_value,
                              NoRegs, "io_error")
            ELSE IF HasRegData(r.resp)
            THEN WriteConfirm(modified, req, reg_offset, raw_value, r.resp)
            ELSE WriteOutcome(SetRegister(modified, reg_offset, old_value), req, FALSE,
                              "none", reg_offset, raw_value, NoRegs, "no_response")
        Send(modified, req) ==
            Respond(modified, req, send_and_receive(req, FNC_READ_CONFIG_RESP, env))
        Build(modified) == Send(modified, WriteRequest(modified))
    IN  Build(SetRegister(cache, reg_offset, raw_value))

\* write_config_register starting from a block of zeros when nothing is cached
write_without_cache_gate(cache, reg_name, value, env) ==
    LET block == IF cache = NoRegs THEN [ i \in 1..CONFIG_REG_COUNT |-> 0 ] ELSE cache
        Write(encoded) ==
            IF encoded.kind = "raise"
            THEN WriteOutcome(cache, << >>, FALSE, "value", -1, -1, NoRegs,
                              "encode_raised")
            ELSE IF encoded.kind = "none"
            THEN WriteOutcome(cache, << >>, FALSE, "none", -1, -1, NoRegs,
                              "encode_failed")
            ELSE IF encoded.offset >= Len(block)
            THEN WriteOutcome(cache, << >>, FALSE, "none", encoded.offset,
                              encoded.raw, NoRegs, "bad_offset")
            ELSE WriteExchange(block, encoded.offset, encoded.raw, env)
    IN  Write(encode_config_value(reg_name, value))

write_config_register(cache, reg_name, value, env) ==
    IF cache = NoRegs
    THEN WriteOutcome(cache, << >>, FALSE, "none", -1, -1, NoRegs, "no_cache")
    ELSE LET Write(encoded) ==
                 IF encoded.kind = "raise"
                 THEN WriteOutcome(cache, << >>, FALSE, "value", -1, -1, NoRegs,
                                   "encode_raised")
                 ELSE IF encoded.kind = "none"
                 THEN WriteOutcome(cache, << >>, FALSE, "none", -1, -1, NoRegs,
                                   "encode_failed")
                 ELSE IF encoded.offset >= Len(cache)
                 THEN WriteOutcome(cache, << >>, FALSE, "none", encoded.offset,
                                   encoded.raw, NoRegs, "bad_offset")
                 ELSE WriteExchange(cache, encoded.offset, encoded.raw, env)
         IN  Write(encode_config_value(reg_name, value))

(***************************************************************************)
(* The state.                                                              *)
(*   MODE, write_queue, cached_config_regs: the globals of main.py         *)
(*   conn_open: conn.is_open;  consecutive_errors: the counter of main()   *)
(*   pc: where the polling thread is: "connect" (the top of main's loop    *)
(*       with the connection closed), "drain" (the write loop of           *)
(*       poll_direct), "config" (before read_config), "sleep" (the sleep   *)
(*       between polls)                                                    *)
(*   last: what the latest step of the polling thread did (history)        *)
(*   streak: the transport failures since the last cycle that ran to its   *)
(*       end (history);  ever_ok: some cycle ran to its end (history)      *)
(*   rp_*: one call of read_packet followed read by read (SpecRead):       *)
(*       rp_segments names the pieces of the byte stream the bus delivers  *)
(*       (history), rp_stream the bytes still to arrive, rp_arrived the    *)
(*       bytes that ser.read has returned so far (history), rp_buffer the  *)
(*       local buffer, rp_pc "idle", "reading", "returned" or "timeout"    *)
(*   fn_*: one call of a function of geco_protocol.py or pcwu_registers.py *)
(*       (SpecCodec): fn_op names the call, fn_in is its argument,         *)
(*       fn_out its result, fn_pc "idle", "call" or "done"                 *)
(*   accepted, consumed: the commands on_ha_command has appended and the   *)
(*       commands the drain loop has popped, in order (history)            *)
(*   rejected: how many commands on_ha_command has refused with its        *)
(*       warning (history)                                                 *)
(*   ev_*: run_eavesdrop: ev_stream the bytes the bus still delivers,      *)
(*       ev_buffer the local buffer, ev_published the snapshots handed to  *)
(*       publish_status and publish_config, in order (history)             *)
(***************************************************************************)
VARIABLES MODE, write_queue, cached_config_regs, conn_open, consecutive_errors,
          pc, last, streak, ever_ok,
          rp_pc, rp_expected, rp_segments, rp_stream, rp_arrived, rp_buffer,
          rp_result, rp_flushed,
          fn_pc, fn_op, fn_in, fn_out,
          accepted, consumed, rejected,
          ev_stream, ev_buffer, ev_published,
          running, wait_left, cache_fresh

session_vars == << MODE, write_queue, cached_config_regs, conn_open,
                   consecutive_errors, pc, last, streak, ever_ok >>
rp_vars == << rp_pc, rp_expected, rp_segments, rp_stream, rp_arrived, rp_buffer,
             rp_result, rp_flushed >>
fn_vars == << fn_pc, fn_op, fn_in, fn_out >>
hist_vars == << accepted, consumed, rejected >>
ev_vars == << ev_stream, ev_buffer, ev_published >>
loop_vars == << running, wait_left, cache_fresh >>
vars == << MODE, write_queue, cached_config_regs, conn_open, consecutive_errors,
           pc, last, streak, ever_ok,
           rp_pc, rp_expected, rp_segments, rp_stream, rp_arrived, rp_buffer,
           rp_result, rp_flushed,
           fn_pc, fn_op, fn_in, fn_out,
           accepted, consumed, rejected,
           ev_stream, ev_buffer, ev_published,
          running, wait_left, cache_fresh >>

\* a record of the latest step
Step(op, cmd, before, out, wait) ==
    [ op |-> op, name |-> cmd.name, value |-> cmd.value, before |-> before,
      sent |-> out.sent, ret |-> out.ret, raised |-> out.raised,
      offset |-> out.offset, raw |-> out.raw, confirmed |-> out.confirmed,
      path |-> out.path, wait |-> wait ]

\* the outcome part of a step that is no write
Plain(path, raised, sent, regs) ==
    WriteOutcome(NoRegs, sent, FALSE, raised, -1, -1, regs, path)

\* min(consecutive_errors * 5, 60)
Backoff(errors) == Min(errors * BACKOFF_STEP, BACKOFF_MAX)

SessionInit ==
    /\ MODE = "direct"
    /\ write_queue = << >>
    /\ cached_config_regs = NoRegs
    /\ conn_open = FALSE
    /\ consecutive_errors = 0
    /\ pc = "connect"
    /\ last = Step("none", NoCommand, NoRegs, Plain("", "none", << >>, NoRegs), 0)
    /\ streak = 0
    /\ ever_ok = FALSE

ReadIdle ==
    /\ rp_pc = "idle"
    /\ rp_expected = 0
    /\ rp_segments = << >>
    /\ rp_stream = << >>
    /\ rp_arrived = << >>
    /\ rp_buffer = << >>
    /\ rp_result = NoPacket
    /\ rp_flushed = 0

FnIdle ==
    /\ fn_pc = "idle"
    /\ fn_op = "none"
    /\ fn_in = << >>
    /\ fn_out = << >>

HistIdle ==
    /\ accepted = << >>
    /\ consumed = << >>
    /\ rejected = 0

EavesIdle ==
    /\ ev_stream = << >>
    /\ ev_buffer = << >>
    /\ ev_published = << >>

\* main.py: "running = True"; no wait has begun, no config read has been made
LoopIdle ==
    /\ running = TRUE
    /\ wait_left = 0
    /\ cache_fresh = FALSE

Init == SessionInit /\ ReadIdle /\ FnIdle /\ HistIdle /\ EavesIdle /\ LoopIdle

\* on_ha_command without the test of MODE
on_ha_command_any_mode(cmd) ==
    /\ Len(write_queue) < MaxQueue
    /\ write_queue' = Append(write_queue, cmd)
    /\ UNCHANGED << MODE, cached_config_regs, conn_open, consecutive_errors,
                    pc, last, streak, ever_ok >>

\* on_ha_command putting the command at the head of the queue
on_ha_command_prepend(cmd) ==
    /\ Len(write_queue) < MaxQueue
    /\ write_queue' = IF MODE = "eavesdrop" THEN write_queue
                      ELSE << cmd >> \o write_queue
    /\ UNCHANGED << MODE, cached_config_regs, conn_open, consecutive_errors,
                    pc, last, streak, ever_ok >>

\* on_ha_command, called by the MQTT thread
on_ha_command(cmd) ==
    /\ Len(write_queue) < MaxQueue
    /\ write_queue' = IF MODE = "eavesdrop" THEN write_queue
                      ELSE Append(write_queue, cmd)
    /\ UNCHANGED << MODE, cached_config_regs, conn_open, consecutive_errors,
                    pc, last, streak, ever_ok >>

\* main: "if not conn.is_open: conn.connect()", with its except branch
Connect(ok) ==
    /\ pc = "connect"
    /\ ~conn_open
    /\ IF ok
       THEN /\ conn_open' = TRUE
            /\ consecutive_errors' = 0
            /\ pc' = "drain"
            /\ streak' = streak
            /\ last' = Step("connect", NoCommand, cached_config_regs,
                            Plain("ok", "none", << >>, NoRegs), 0)
       ELSE /\ consecutive_errors < MaxErrors
            /\ streak < MaxErrors
            /\ conn_open' = FALSE
            /\ consecutive_errors' = consecutive_errors + 1
            /\ pc' = "connect"
            /\ streak' = streak + 1
            /\ last' = Step("connect", NoCommand, cached_config_regs,
                            Plain("failed", "serial", << >>, NoRegs),
                            Backoff(consecutive_errors + 1))
    /\ UNCHANGED << MODE, write_queue, cached_config_regs, ever_ok >>

\* the exception leaves main's loop instead of being handled in it
HandlerExits(raised, op, cmd, before, out) ==
    /\ consecutive_errors < MaxErrors
    /\ streak < MaxErrors
    /\ consecutive_errors' = consecutive_errors + 1
    /\ conn_open' = FALSE
    /\ pc' = "exited"
    /\ streak' = IF raised = "serial" THEN streak + 1 ELSE streak
    /\ last' = Step(op, cmd, before, out, 0)
    /\ UNCHANGED << MODE, ever_ok >>

\* main: "except serial.SerialException" and "except Exception"
Handler(raised, op, cmd, before, out) ==
    /\ consecutive_errors < MaxErrors
    /\ streak < MaxErrors
    /\ consecutive_errors' = consecutive_errors + 1
    /\ conn_open' = FALSE
    /\ pc' = "connect"
    /\ streak' = IF raised = "serial" THEN streak + 1 ELSE streak
    /\ last' = Step(op, cmd, before, out,
                    IF raised = "serial" THEN Backoff(consecutive_errors + 1)
                    ELSE ERROR_SLEEP)
    /\ UNCHANGED << MODE, ever_ok >>

\* a drain loop that leaves a command whose write did not succeed at the
\* head of the queue, to be tried again
DrainWriteRetries(env) ==
    /\ pc = "drain"
    /\ write_queue # << >>
    /\ LET cmd == Head(write_queue)
           Done(out) ==
               /\ write_queue' = IF out.raised = "none" /\ out.ret
                                 THEN Tail(write_queue) ELSE write_queue
               /\ cached_config_regs' = out.cache
               /\ IF out.raised = "none"
                  THEN /\ last' = Step("write", cmd, cached_config_regs, out, 0)
                       /\ UNCHANGED << MODE, conn_open, consecutive_errors, pc,
                                       streak, ever_ok >>
                  ELSE Handler(out.raised, "write", cmd, cached_config_regs, out)
       IN  Done(write_config_register(cached_config_regs, cmd.name, cmd.value, env))

\* poll_direct: one turn of "while write_queue"
DrainWrite(env) ==
    /\ pc = "drain"
    /\ write_queue # << >>
    /\ LET cmd == Head(write_queue)
           Done(out) ==
               /\ write_queue' = Tail(write_queue)
               /\ cached_config_regs' = out.cache
               /\ IF out.raised = "none"
                  THEN /\ last' = Step("write", cmd, cached_config_regs, out, 0)
                       /\ UNCHANGED << MODE, conn_open, consecutive_errors, pc,
                                       streak, ever_ok >>
                  ELSE Handler(out.raised, "write", cmd, cached_config_regs, out)
       IN  Done(write_config_register(cached_config_regs, cmd.name, cmd.value, env))

\* poll_direct: the write queue is empty, read_status
ReadStatus(env) ==
    /\ pc = "drain"
    /\ write_queue = << >>
    /\ LET Out(r) == Plain(IF r.raised THEN "io_error"
                           ELSE IF ~r.answered THEN "timeout"
                           ELSE IF r.regs = NoRegs THEN "none" ELSE "ok",
                           IF r.raised THEN "serial" ELSE "none",
                           StatusRequest, r.regs)
           Done(r) ==
               IF r.raised
               THEN Handler("serial", "status", NoCommand, cached_config_regs, Out(r))
               ELSE /\ pc' = "config"
                    /\ last' = Step("status", NoCommand, cached_config_regs, Out(r), 0)
                    /\ UNCHANGED << MODE, conn_open, consecutive_errors, streak,
                                    ever_ok >>
       IN  Done(read_status(env))
    /\ UNCHANGED << write_queue, cached_config_regs >>

\* poll_direct: read_config and the cache refresh; then main resets the counter
ReadConfig(env) ==
    /\ pc = "config"
    /\ LET Out(r) == Plain(IF r.raised THEN "io_error"
                           ELSE IF ~r.answered THEN "timeout"
                           ELSE IF r.regs = NoRegs THEN "none" ELSE "ok",
                           IF r.raised THEN "serial" ELSE "none",
                           ConfigRequest, r.regs)
           Done(r) ==
               IF r.raised
               THEN /\ Handler("serial", "config", NoCommand, cached_config_regs, Out(r))
                    /\ UNCHANGED cached_config_regs
               ELSE /\ cached_config_regs' = IF r.regs # NoRegs THEN r.regs
                                             ELSE cached_config_regs
                    /\ consecutive_errors' = 0
                    /\ streak' = 0
                    /\ ever_ok' = TRUE
                    /\ pc' = "sleep"
                    /\ last' = Step("config", NoCommand, cached_config_regs, Out(r), 0)
                    /\ UNCHANGED << MODE, conn_open >>
       IN  Done(read_config(env))
    /\ UNCHANGED write_queue

\* the next cycle starts at the config read, without the writes and the status
SleepSkipsDrain ==
    /\ pc = "sleep"
    /\ pc' = "config"
    /\ last' = Step("sleep", NoCommand, cached_config_regs,
                    Plain("", "none", << >>, NoRegs), 0)
    /\ UNCHANGED << MODE, write_queue, cached_config_regs, conn_open,
                    consecutive_errors, streak, ever_ok >>

\* main: the sleep between polls ends and the next cycle starts
Sleep ==
    /\ pc = "sleep"
    /\ pc' = "drain"
    /\ last' = Step("sleep", NoCommand, cached_config_regs,
                    Plain("", "none", << >>, NoRegs), 0)
    /\ UNCHANGED << MODE, write_queue, cached_config_regs, conn_open,
                    consecutive_errors, streak, ever_ok >>

Commanded == \E cmd \in Commands : on_ha_command(cmd)
Connecting == \E ok \in BOOLEAN : Connect(ok)
Draining == \E env \in Exchanges(WriteReplies) : DrainWrite(env)
StatusRead == \E env \in Exchanges(StatusReplies) : ReadStatus(env)
ConfigRead == \E env \in Exchanges(ConfigReplies) : ReadConfig(env)

Next ==
    \/ Commanded /\ UNCHANGED << rp_vars, fn_vars, hist_vars, ev_vars, loop_vars >>
    \/ Connecting /\ UNCHANGED << rp_vars, fn_vars, hist_vars, ev_vars, loop_vars >>
    \/ Draining /\ UNCHANGED << rp_vars, fn_vars, hist_vars, ev_vars, loop_vars >>
    \/ StatusRead /\ UNCHANGED << rp_vars, fn_vars, hist_vars, ev_vars, loop_vars >>
    \/ ConfigRead /\ UNCHANGED << rp_vars, fn_vars, hist_vars, ev_vars, loop_vars >>
    \/ Sleep /\ UNCHANGED << rp_vars, fn_vars, hist_vars, ev_vars, loop_vars >>

Spec == Init /\ [][Next]_vars

(***************************************************************************)
(* One call of write_config_register (and the calls that follow it in the  *)
(* same drain loop) from every kind of cache: none, a block of BlockLen    *)
(* words, a block as short as a truncated confirmation leaves it, a block  *)
(* with every defined register, and what read_config caches from the       *)
(* longest response a packet can hold and from one register more.          *)
(***************************************************************************)
\* the most registers a response can carry: its payload, ten bytes before
\* the register data and two checksum bytes behind, is counted by one byte
MaxBlock == (255 - 2 - PL_DATA_START) \div 2

\* what read_config caches from a config response of the device with n
\* registers, NoRegs when it returns None
CachedFrom(n) ==
    ReadResult(parse_packet(ConfigResponse([ i \in 1..n |-> IF i = 1 THEN 3 ELSE i ])),
               CONFIG_REG_COUNT, MIN_CONFIG_REGS)

WriteCaches ==
    { NoRegs, DeviceBlockA, DeviceBlockB, SubSeq(DeviceBlockA, 1, ShortLen),
      DeviceBlockFull, CachedFrom(MaxBlock), CachedFrom(MaxBlock + 1) }

InitWrite ==
    /\ MODE = "direct"
    /\ \E cmd \in WriteCommands : write_queue = << cmd >>
    /\ cached_config_regs \in WriteCaches
    /\ conn_open = TRUE
    /\ consecutive_errors = 0
    /\ pc = "drain"
    /\ last = Step("none", NoCommand, NoRegs, Plain("", "none", << >>, NoRegs), 0)
    /\ streak = 0
    /\ ever_ok = FALSE
    /\ ReadIdle
    /\ FnIdle
    /\ HistIdle
    /\ EavesIdle
    /\ LoopIdle

NextWrite ==
    \/ Commanded /\ UNCHANGED << rp_vars, fn_vars, hist_vars, ev_vars, loop_vars >>
    \/ Draining /\ UNCHANGED << rp_vars, fn_vars, hist_vars, ev_vars, loop_vars >>

SpecWrite == InitWrite /\ [][NextWrite]_vars

(***************************************************************************)
(* One call of read_packet, read by read.  The bus delivers a stream made  *)
(* of segments: valid responses, line noise, a header with a bad checksum, *)
(* a header that declares more payload than ever arrives, a packet cut     *)
(* short, a packet with a bad payload checksum.  Each ser.read returns     *)
(* at most READ_CHUNK of the bytes still to arrive; the timeout may elapse *)
(* before any read.                                                        *)
(***************************************************************************)
SegmentNames ==
    { "status", "configA", "configB", "junk", "false_marker", "stall_marker",
      "truncated", "bad_crc", "long_junk", "request", "lone_marker", "nothing",
      "status_full", "config_full" }

\* build_header's result with its checksum byte off by one
BadHeader(payload_len) ==
    [ build_header(CON_HARD_ID, DEV_HARD_ID, payload_len)
        EXCEPT ![HEADER_LEN] = (@ + 1) % 256 ]

SegmentBytes ==
    [ name \in SegmentNames |->
        CASE name = "status" -> FixedReplies["status_short"]
          [] name = "configA" -> FixedReplies["short"]
          [] name = "configB" -> ConfigResponse(<< 7, 26985 >>)
          [] name = "junk" -> << 1, 2, 3 >>
          [] name = "false_marker" -> BadHeader(20)
          [] name = "stall_marker" -> BadHeader(255)
          [] name = "truncated" -> SubSeq(FixedReplies["blockB"], 1, 12)
          [] name = "bad_crc" ->
                [ FixedReplies["short"]
                    EXCEPT ![Len(FixedReplies["short"])] = (@ + 1) % 256 ]
          [] name = "long_junk" -> [ i \in 1..JunkLen |-> 0 ]
          [] name = "request" -> StatusRequest
          [] name = "lone_marker" -> << START_BYTE >>
          [] name = "nothing" -> << >>
          [] name = "status_full" -> FixedReplies["status_ok"]
          [] name = "config_full" -> FixedReplies["blockA"] ]

\* the function code of the valid packet a segment is, 0 when it is none
SegmentFnc(name) ==
    CASE name \in {"status", "status_full"} -> FNC_READ_STATUS_RESP
      [] name \in {"configA", "configB", "config_full"} -> FNC_READ_CONFIG_RESP
      [] name = "request" -> FNC_READ_STATUS_REQ
      [] OTHER -> 0

Streams ==
    { << "status", "configA", "configB" >>,
      << "configB", "status", "configA" >>,
      << "junk", "configA", "junk" >>,
      << "false_marker", "configA", "status" >>,
      << "truncated", "configB", "status" >>,
      << "bad_crc", "status", "configA" >>,
      << "stall_marker", "configA" >>,
      << "long_junk", "configA" >>,
      << "status", "junk" >> }

RECURSIVE StreamBytes(_)
StreamBytes(segments) ==
    IF segments = << >> THEN << >>
    ELSE SegmentBytes[Head(segments)] \o StreamBytes(Tail(segments))

\* the sizes of what one ser.read(256) returns when that much is there
ChunkSizes == { 0, 5, READ_CHUNK }

InitRead ==
    /\ SessionInit
    /\ rp_pc = "reading"
    /\ rp_expected \in { FNC_READ_STATUS_RESP, FNC_READ_CONFIG_RESP }
    /\ rp_segments \in Streams
    /\ rp_stream = StreamBytes(rp_segments)
    /\ rp_arrived = << >>
    /\ rp_buffer = << >>
    /\ rp_result = NoPacket
    /\ rp_flushed = 0
    /\ FnIdle
    /\ HistIdle
    /\ EavesIdle
    /\ LoopIdle

\* one turn of read_packet's while loop: ser.read returns up to n bytes
ReadChunk(n) ==
    /\ rp_pc = "reading"
    /\ LET chunk == SubSeq(rp_stream, 1, Min(n, Len(rp_stream)))
           Done(step) ==
               /\ rp_buffer' = step.buffer
               /\ rp_result' = step.found
               /\ rp_pc' = IF step.found # NoPacket THEN "returned" ELSE "reading"
       IN  /\ rp_arrived' = rp_arrived \o chunk
           /\ rp_stream' = SubSeq(rp_stream, Len(chunk) + 1, Len(rp_stream))
           /\ Done(ReadStep(rp_buffer, chunk, rp_expected))
    /\ UNCHANGED << rp_expected, rp_segments, rp_flushed >>

\* the while condition fails: the timeout has elapsed, return None
Timeout ==
    /\ rp_pc = "reading"
    /\ rp_pc' = "timeout"
    /\ rp_result' = NoPacket
    /\ UNCHANGED << rp_expected, rp_segments, rp_stream, rp_arrived, rp_buffer,
                    rp_flushed >>

Reading == \E n \in ChunkSizes : ReadChunk(n)

NextRead ==
    \/ Reading /\ UNCHANGED << session_vars, fn_vars, hist_vars, ev_vars, loop_vars >>
    \/ Timeout /\ UNCHANGED << session_vars, fn_vars, hist_vars, ev_vars, loop_vars >>

SpecRead == InitRead /\ [][NextRead]_vars

(***************************************************************************)
(* main.py: send_and_receive step by step, one exchange after the other on *)
(* the same transport.  rp_stream holds the bytes the transport has        *)
(* received and not yet handed out, rp_segments what arrived since the     *)
(* flush of the exchange, rp_arrived what read_packet has read, rp_flushed *)
(* how many bytes the flush discarded.                                     *)
(***************************************************************************)
\* flush_input without effect
flush_input_keeps(received) == received

\* flush_input: reset_input_buffer and reads until nothing is left
flush_input(received) == << >>

InitExchange ==
    /\ SessionInit
    /\ rp_pc = "flush"
    /\ rp_expected \in { FNC_READ_STATUS_RESP, FNC_READ_CONFIG_RESP }
    /\ rp_segments = << >>
    /\ rp_stream \in { << >>, SegmentBytes["configA"] }
    /\ rp_arrived = << >>
    /\ rp_buffer = << >>
    /\ rp_result = NoPacket
    /\ rp_flushed = 0
    /\ FnIdle
    /\ HistIdle
    /\ EavesIdle
    /\ LoopIdle

\* conn.flush_input()
Flush ==
    /\ rp_pc = "flush"
    /\ rp_pc' = "send"
    /\ rp_stream' = flush_input(rp_stream)
    /\ rp_flushed' = Len(rp_stream) - Len(rp_stream')
    /\ UNCHANGED << rp_expected, rp_segments, rp_arrived, rp_buffer, rp_result >>

\* bytes of the bus reach the transport: after the flush they belong to the
\* exchange, after its end they wait for the next flush
Arrival(stray) ==
    /\ \/ rp_pc = "send" /\ rp_segments = << >>
          /\ rp_segments' = << stray >>
       \/ rp_pc \in { "returned", "timeout" } /\ rp_stream = << >>
          /\ UNCHANGED rp_segments
    /\ rp_stream' = rp_stream \o SegmentBytes[stray]
    /\ UNCHANGED << rp_pc, rp_expected, rp_arrived, rp_buffer, rp_result, rp_flushed >>

\* conn.send(request): it raises, or the request is out and the answer of the
\* device arrives during the wait
Send(fail, answer) ==
    /\ rp_pc = "send"
    /\ IF fail
       THEN /\ rp_pc' = "raised"
            /\ UNCHANGED << rp_segments, rp_stream >>
       ELSE /\ rp_pc' = "reading"
            /\ rp_segments' = rp_segments \o answer
            /\ rp_stream' = rp_stream \o StreamBytes(answer)
    /\ UNCHANGED << rp_expected, rp_arrived, rp_buffer, rp_result, rp_flushed >>

\* the next call of send_and_receive, after a reconnect when the last raised
Begin(expected_fnc) ==
    /\ rp_pc \in { "returned", "timeout", "raised" }
    /\ rp_pc' = "flush"
    /\ rp_expected' = expected_fnc
    /\ rp_segments' = << >>
    /\ rp_stream' = IF rp_pc = "raised" THEN << >> ELSE rp_stream
    /\ rp_arrived' = << >>
    /\ rp_buffer' = << >>
    /\ rp_result' = NoPacket
    /\ UNCHANGED rp_flushed

\* the bus brings a late response or noise; the device answers with nothing,
\* a config or a status response, or a config response behind noise
NextExchange ==
    \/ Flush /\ UNCHANGED << session_vars, fn_vars, hist_vars, ev_vars, loop_vars >>
    \/ (\E stray \in { "configA", "status", "junk" } : Arrival(stray))
          /\ UNCHANGED << session_vars, fn_vars, hist_vars, ev_vars, loop_vars >>
    \/ (\E fail \in BOOLEAN,
            answer \in { << >>, << "configA" >>, << "status" >>,
                         << "junk", "configB" >> } : Send(fail, answer))
          /\ UNCHANGED << session_vars, fn_vars, hist_vars, ev_vars, loop_vars >>
    \/ Reading /\ UNCHANGED << session_vars, fn_vars, hist_vars, ev_vars, loop_vars >>
    \/ Timeout /\ UNCHANGED << session_vars, fn_vars, hist_vars, ev_vars, loop_vars >>
    \/ (\E fnc \in { FNC_READ_STATUS_RESP, FNC_READ_CONFIG_RESP } : Begin(fnc))
          /\ UNCHANGED << session_vars, fn_vars, hist_vars, ev_vars, loop_vars >>

SpecExchange == InitExchange /\ [][NextExchange]_vars

(***************************************************************************)
(* One call of a function of geco_protocol.py or pcwu_registers.py.  The   *)
(* argument is drawn from a bounded set in the initial state and the call  *)
(* is one step.                                                            *)
(***************************************************************************)
\* find_packets: garbage without the marker, one valid packet, more garbage
ResyncBuffers ==
    { << before, packet, after >> :
        before \in { "nothing", "junk", "long_junk" },
        packet \in { "status", "configA", "configB", "request" },
        after \in { "nothing", "junk", "lone_marker", "false_marker",
                    "stall_marker", "truncated", "bad_crc" } }

\* find_packets: a marker that starts no packet, and valid packets
FalseMarkerBuffers ==
    { << "configB" >>,
      << "junk", "configB", "status" >>,
      << "lone_marker", "status" >>,
      << "lone_marker", "junk", "request" >>,
      << "false_marker", "configA" >>,
      << "bad_crc", "configA", "status" >>,
      << "status", "lone_marker", "configA" >>,
      << "stall_marker", "configA" >> }

\* build_read_request: the arguments
ReadRequestArgs ==
    [ dst_hard : { 0, 2, 255 }, src_hard : { 1, 255 },
      dst_soft : { 0, 2, 255 }, src_soft : { 1, 105 },
      fnc : { 0, FNC_READ_STATUS_REQ, FNC_READ_STATUS_RESP, FNC_READ_CONFIG_REQ,
              FNC_READ_CONFIG_RESP, 255 },
      reg_start : { 0, STATUS_REG_BASE, 255, 256, CONFIG_REG_BASE, 65535 },
      reg_count : { 0, STATUS_REG_COUNT, 255 } ]

\* packets that build_read_request and build_write_request produce
BuiltPackets ==
    { StatusRequest, ConfigRequest, WriteRequest(DeviceBlockA),
      WriteRequest(SubSeq(DeviceBlockA, 1, ShortLen)), WriteRequest(DeviceBlockFull),
      build_read_request(255, 255, 105, 105, 255, 65535, 255) }

\* a built packet and the bit of it that is flipped (bit 0 is the lowest bit
\* of the first byte)
FlippedBits ==
    UNION { { [ packet |-> p, bit |-> k ] : k \in 0..(8 * Len(p) - 1) } :
            p \in BuiltPackets }

FlipBit(packet, k) ==
    [ packet EXCEPT ![(k \div 8) + 1] = Xor(@, Pow2(k % 8)) ]

\* the smallest packet parse_packet accepts: a payload of five bytes and its
\* checksum
MinimalPacket ==
    build_header(CON_HARD_ID, DEV_HARD_ID, 7)
        \o build_payload(CON_SOFT_ID, DEV_SOFT_ID, FNC_READ_STATUS_RESP, << >>)

\* parse_packet: valid packets, each cut at every length, each followed by
\* further bytes, each with one byte changed, and byte sequences that fail
\* one test of parse_packet each
ParseInputs ==
    LET valid == { StatusRequest, FixedReplies["blockA"], MinimalPacket }
        Zeros(n) == [ i \in 1..n |-> 0 ]
    IN  UNION { { SubSeq(p, 1, n) : n \in 0..Len(p) } : p \in valid }
        \cup { p \o << 1, 2, 3 >> : p \in valid }
        \cup UNION { { [ p EXCEPT ![i] = (@ + 1) % 256 ] : i \in 1..Len(p) } :
                     p \in valid }
        \cup { Zeros(HEADER_LEN + 7),
               build_header(CON_HARD_ID, DEV_HARD_ID, 5) \o Zeros(7),
               build_header(CON_HARD_ID, DEV_HARD_ID, 255) \o Zeros(20),
               build_header(CON_HARD_ID, DEV_HARD_ID, 12) \o Zeros(12),
               << START_BYTE + 1 >> \o Tail(StatusRequest) }

\* encode_config_value: every register name and one that is not defined,
\* with numbers at, inside and outside the ranges (in hundredths), numbers
\* that only fit the ranges modulo 2^16, booleans, strings and NaN
EncodeInputs ==
    [ name : { CONFIG_REGISTERS[i].name : i \in DOMAIN CONFIG_REGISTERS }
                \cup { "NoSuchRegister" },
      value : { NumValue(v) : v \in { -654860, -30010, -30000, -10010, -10000,
                                       -1005, -500, -1, 0, 1, 50, 100, 199, 200,
                                       300, 900, 999, 1000, 2000, 3000, 4530,
                                       6000, 6005, 6010, 9000, 9100, 6553500,
                                       6553600, 6553700 } }
                \cup { BoolValue(TRUE), BoolValue(FALSE), NanValue }
                \cup { StrValue(t) : t \in { "45", "1", "ON", "True", "abc" } } ]

\* parse_config_registers: the value published for one entry of the map
ParseConfigEntry(entry, val) ==
    IF entry.dtype = "te10" THEN NumValue(signed16(val) * 10)   \* signed16(val) / 10.0
    ELSE IF entry.dtype = "bool" THEN BoolValue(val # 0)
    ELSE NumValue(val * 100)

(***************************************************************************)
(* pcwu_registers.py: the status register map and the two decoders.  A     *)
(* decoded snapshot is a function from the keys of the Python dict to the  *)
(* values; numbers are in hundredths, as everywhere.                       *)
(***************************************************************************)
\* each entry of STATUS_REGISTERS: (offset, name, type)
STATUS_REGISTERS == <<
    [ offset |-> 0,  name |-> "DateYearMonth",  dtype |-> "date_ym" ],
    [ offset |-> 1,  name |-> "DateDayWeekday", dtype |-> "date_dw" ],
    [ offset |-> 2,  name |-> "TimeHourMinute", dtype |-> "time_hm" ],
    [ offset |-> 3,  name |-> "TimeSecond",     dtype |-> "time_s" ],
    [ offset |-> 4,  name |-> "T1",             dtype |-> "te10" ],
    [ offset |-> 5,  name |-> "T2",             dtype |-> "te10" ],
    [ offset |-> 6,  name |-> "T3",             dtype |-> "te10" ],
    [ offset |-> 7,  name |-> "T4",             dtype |-> "te10" ],
    [ offset |-> 8,  name |-> "T5",             dtype |-> "te10" ],
    [ offset |-> 9,  name |-> "T6",             dtype |-> "te10" ],
    [ offset |-> 10, name |-> "T7",             dtype |-> "te10" ],
    [ offset |-> 11, name |-> "T8",             dtype |-> "te10" ],
    [ offset |-> 12, name |-> "T9",             dtype |-> "te10" ],
    [ offset |-> 13, name |-> "T10",            dtype |-> "te10" ],
    [ offset |-> 14, name |-> "StatusBits",     dtype |-> "word" ],
    [ offset |-> 15, name |-> "IsManual",       dtype |-> "bool" ],
    [ offset |-> 16, name |-> "EV1",            dtype |-> "word" ],
    [ offset |-> 17, name |-> "WaitingStatus",  dtype |-> "word" ] >>

\* STATUS_BITMASKS, in the order of the dict
STATUS_BITMASKS == <<
    [ name |-> "FanON",             offset |-> 14, mask |-> 1 ],
    [ name |-> "CirculationPumpON", offset |-> 14, mask |-> 2 ],
    [ name |-> "HeatPumpON",        offset |-> 14, mask |-> 4 ],
    [ name |-> "CompressorON",      offset |-> 14, mask |-> 8 ],
    [ name |-> "HeaterEON",         offset |-> 14, mask |-> 16 ] >>

\* TIME_PROGRAMS: name -> (hi_offset, lo_offset)
TIME_PROGRAMS == <<
    [ name |-> "TimeProgramHPM_F", hi_off |-> 8,  lo_off |-> 9 ],
    [ name |-> "TimeProgramHPSat", hi_off |-> 10, lo_off |-> 11 ],
    [ name |-> "TimeProgramHPSun", hi_off |-> 12, lo_off |-> 13 ] >>

\* the keys one entry of STATUS_REGISTERS sets in the result, with values
ParseStatusEntry(entry, val) ==
    LET hi == NumValue((Shr(val, 8) % 256) * 100)
        lo == NumValue((val % 256) * 100)
    IN  CASE entry.dtype = "te10" -> (entry.name :> NumValue(signed16(val) * 10))
          [] entry.dtype = "bool" -> (entry.name :> BoolValue(val # 0))
          [] entry.dtype = "date_ym" ->
                ("Year" :> NumValue((2000 + (Shr(val, 8) % 256)) * 100)) @@ ("Month" :> lo)
          [] entry.dtype = "date_dw" -> ("Day" :> hi) @@ ("Weekday" :> lo)
          [] entry.dtype = "time_hm" -> ("Hour" :> hi) @@ ("Minute" :> lo)
          [] entry.dtype = "time_s" -> ("Second" :> hi)
          [] OTHER -> (entry.name :> NumValue(val * 100))

\* the loop that also skips the entry of the last word received
RECURSIVE DecodeLoopShort(_, _, _, _)
DecodeLoopShort(entries, block, raw_regs, i) ==
    IF i = 0 THEN << >>
    ELSE IF entries[i].offset + 1 >= Len(raw_regs)
    THEN DecodeLoopShort(entries, block, raw_regs, i - 1)
    ELSE (IF block = "status"
          THEN ParseStatusEntry(entries[i], raw_regs[entries[i].offset + 1])
          ELSE (entries[i].name
                  :> ParseConfigEntry(entries[i], raw_regs[entries[i].offset + 1])))
            @@ DecodeLoopShort(entries, block, raw_regs, i - 1)

\* the dict after the loop body ran for the entries up to index i of the
\* map of a block ("status" or "config"): an entry whose offset is not
\* below len(raw_regs) is skipped, a key set by a later entry replaces the
\* earlier value
RECURSIVE DecodeLoop(_, _, _, _)
DecodeLoop(entries, block, raw_regs, i) ==
    IF i = 0 THEN << >>
    ELSE IF entries[i].offset >= Len(raw_regs)
    THEN DecodeLoop(entries, block, raw_regs, i - 1)
    ELSE (IF block = "status"
          THEN ParseStatusEntry(entries[i], raw_regs[entries[i].offset + 1])
          ELSE (entries[i].name
                  :> ParseConfigEntry(entries[i], raw_regs[entries[i].offset + 1])))
            @@ DecodeLoop(entries, block, raw_regs, i - 1)

\* the second loop of parse_status_registers: "if offset < len(raw_regs)"
RECURSIVE FlagLoop(_, _)
FlagLoop(raw_regs, i) ==
    IF i = 0 THEN << >>
    ELSE IF STATUS_BITMASKS[i].offset < Len(raw_regs)
    THEN (STATUS_BITMASKS[i].name :>
            BoolValue((raw_regs[STATUS_BITMASKS[i].offset + 1]
                         \div STATUS_BITMASKS[i].mask) % 2 = 1))
            @@ FlagLoop(raw_regs, i - 1)
    ELSE FlagLoop(raw_regs, i - 1)

parse_status_registers(raw_regs) ==
    FlagLoop(raw_regs, Len(STATUS_BITMASKS))
        @@ DecodeLoop(STATUS_REGISTERS, "status", raw_regs, Len(STATUS_REGISTERS))

\* the second loop of parse_config_registers: the 24 characters of
\* (hi << 16) | lo, the hour 0 first; only the bits 0..23 are read, so the
\* high byte of hi is dropped before the shift
RECURSIVE ProgramLoop(_, _)
ProgramLoop(raw_regs, i) ==
    LET Hours(combined) ==
            StrValue([ h \in 1..24 |->
                         IF Shr(combined, h - 1) % 2 = 1 THEN "1" ELSE "0" ])
    IN  IF i = 0 THEN << >>
        ELSE IF TIME_PROGRAMS[i].hi_off < Len(raw_regs)
                  /\ TIME_PROGRAMS[i].lo_off < Len(raw_regs)
        THEN (TIME_PROGRAMS[i].name :>
                Hours(Shl(raw_regs[TIME_PROGRAMS[i].hi_off + 1] % 256, 16)
                        + raw_regs[TIME_PROGRAMS[i].lo_off + 1]))
                @@ ProgramLoop(raw_regs, i - 1)
        ELSE ProgramLoop(raw_regs, i - 1)

parse_config_registers(raw_regs) ==
    ProgramLoop(raw_regs, Len(TIME_PROGRAMS))
        @@ DecodeLoop(CONFIG_REGISTERS, "config", raw_regs, Len(CONFIG_REGISTERS))

\* the longest byte string handed to a checksum in one piece
MaxBytes == 2

\* the longest block of words handed to the decoders
MaxWords == 26

InitCodec ==
    /\ SessionInit
    /\ ReadIdle
    /\ HistIdle
    /\ EavesIdle
    /\ LoopIdle
    /\ fn_pc = "call"
    /\ fn_out = << >>
    /\ \/ fn_op = "find_packets" /\ fn_in \in ResyncBuffers \cup FalseMarkerBuffers
       \/ fn_op = "build_read_request" /\ fn_in \in ReadRequestArgs
       \/ fn_op = "flip" /\ fn_in \in FlippedBits
       \/ fn_op = "parse_packet" /\ fn_in \in ParseInputs
       \/ fn_op = "encode_config_value" /\ fn_in \in EncodeInputs
       \/ /\ fn_op = "round_trip"
          /\ \E i \in DOMAIN CONFIG_REGISTERS :
                /\ CONFIG_REGISTERS[i].dtype = "te10"
                /\ CONFIG_REGISTERS[i].writable
                /\ \E tenths \in CONFIG_REGISTERS[i].min_val ..
                                  CONFIG_REGISTERS[i].max_val :
                      fn_in = [ name |-> CONFIG_REGISTERS[i].name,
                                value |-> NumValue(tenths * 10) ]
       \/ /\ fn_op = "checksum"
          /\ \E m, n \in 0..MaxBytes :
                fn_in \in [ a : [ 1..m -> { 0, 1, START_BYTE, 255 } ],
                            b : [ 1..n -> { 0, 1, START_BYTE, 255 } ] ]
       \/ /\ fn_op \in { "parse_status_registers", "parse_config_registers" }
          /\ \E n \in 0..MaxWords, word \in { 0, 1, 65535, 43981 } :
                fn_in = [ i \in 1..n |-> (word * i) % 65536 ]

Returned(result) ==
    /\ fn_pc = "call"
    /\ fn_pc' = "done"
    /\ fn_out' = result
    /\ UNCHANGED << fn_op, fn_in >>

CallFindPackets ==
    /\ fn_op = "find_packets"
    /\ Returned(find_packets(StreamBytes(fn_in)))

CallBuildReadRequest ==
    /\ fn_op = "build_read_request"
    /\ LET Out(packet) == [ packet |-> packet, parsed |-> parse_packet(packet) ]
       IN  Returned(Out(build_read_request(fn_in.dst_hard, fn_in.src_hard,
                                           fn_in.dst_soft, fn_in.src_soft,
                                           fn_in.fnc, fn_in.reg_start,
                                           fn_in.reg_count)))

CallParseFlipped ==
    /\ fn_op = "flip"
    /\ Returned(parse_packet(FlipBit(fn_in.packet, fn_in.bit)))

CallParsePacket ==
    /\ fn_op = "parse_packet"
    /\ Returned(parse_packet(fn_in))

CallEncodeConfigValue ==
    /\ fn_op = "encode_config_value"
    /\ Returned(encode_config_value(fn_in.name, fn_in.value))

\* encode_config_value, parse_config_registers on the word it returned, and
\* encode_config_value again on the value that was parsed
CallRoundTrip ==
    /\ fn_op = "round_trip"
    /\ LET entry == CHOOSE e \in { CONFIG_REGISTERS[i] : i \in DOMAIN CONFIG_REGISTERS } :
                        e.name = fn_in.name
           Again(encoded, decoded) ==
               [ encoded |-> encoded, decoded |-> decoded,
                 again |-> encode_config_value(fn_in.name, decoded) ]
           Decode(encoded) == Again(encoded, ParseConfigEntry(entry, encoded.raw))
       IN  Returned(Decode(encode_config_value(fn_in.name, fn_in.value)))

\* both checksums over a followed by b: in one call with the default seed,
\* and over b with the checksum of a as the seed
CallChecksum ==
    /\ fn_op = "checksum"
    /\ Returned([ crc8_whole |-> crc8_dvb_s2(fn_in.a \o fn_in.b, 0),
                  crc8_seeded |-> crc8_dvb_s2(fn_in.b, crc8_dvb_s2(fn_in.a, 0)),
                  crc16_whole |-> crc16(fn_in.a \o fn_in.b, 0),
                  crc16_seeded |-> crc16(fn_in.b, crc16(fn_in.a, 0)) ])

\* parse_status_registers or parse_config_registers on a block of words
CallDecode ==
    /\ fn_op \in { "parse_status_registers", "parse_config_registers" }
    /\ Returned(IF fn_op = "parse_status_registers"
                THEN parse_status_registers(fn_in)
                ELSE parse_config_registers(fn_in))

NextCodec ==
    \/ CallFindPackets /\ UNCHANGED << session_vars, rp_vars, hist_vars, ev_vars, loop_vars >>
    \/ CallBuildReadRequest /\ UNCHANGED << session_vars, rp_vars, hist_vars, ev_vars, loop_vars >>
    \/ CallParseFlipped /\ UNCHANGED << session_vars, rp_vars, hist_vars, ev_vars, loop_vars >>
    \/ CallParsePacket /\ UNCHANGED << session_vars, rp_vars, hist_vars, ev_vars, loop_vars >>
    \/ CallEncodeConfigValue /\ UNCHANGED << session_vars, rp_vars, hist_vars, ev_vars, loop_vars >>
    \/ CallRoundTrip /\ UNCHANGED << session_vars, rp_vars, hist_vars, ev_vars, loop_vars >>
    \/ CallDecode /\ UNCHANGED << session_vars, rp_vars, hist_vars, ev_vars, loop_vars >>
    \/ CallChecksum /\ UNCHANGED << session_vars, rp_vars, hist_vars, ev_vars, loop_vars >>

SpecCodec == InitCodec /\ [][NextCodec]_vars

(***************************************************************************)
(* find_packets run one loop iteration at a time: fn_in is the buffer and   *)
(* fn_out holds the locals pos and packets.  The loop is                    *)
(* straight-line code, so an iteration that can run does run.               *)
(***************************************************************************)
InitScan ==
    /\ SessionInit
    /\ ReadIdle
    /\ HistIdle
    /\ EavesIdle
    /\ LoopIdle
    /\ fn_pc = "call"
    /\ fn_op = "find_packets"
    /\ \E segments \in ResyncBuffers \cup FalseMarkerBuffers
                \cup { << "lone_marker", "lone_marker", "false_marker",
                          "lone_marker", "status", "bad_crc", "configA" >> } :
          fn_in = StreamBytes(segments)
    /\ fn_out = [ pos |-> 0, packets |-> << >> ]

Scanning ==
    /\ fn_pc = "call"
    /\ LET Iterated(r) ==
               /\ fn_pc' = IF r.stop THEN "done" ELSE "call"
               /\ fn_out' = [ pos |-> r.pos, packets |-> r.packets ]
       IN  Iterated(FindStep(fn_in, fn_out.pos, fn_out.packets))
    /\ UNCHANGED << fn_op, fn_in >>

NextScan ==
    Scanning /\ UNCHANGED << session_vars, rp_vars, hist_vars, ev_vars, loop_vars >>

SpecScan == InitScan /\ [][NextScan]_vars /\ WF_vars(NextScan)

(***************************************************************************)
(* The session in either mode, with the history of the write queue: what   *)
(* on_ha_command appended, what it refused, and what the drain loop handed *)
(* to write_config_register.  In eavesdrop mode the bus delivers a stream  *)
(* of segments (rp_segments names them, ev_stream holds the bytes still to *)
(* arrive) and each ser.read returns at most EAVESDROP_READ of those       *)
(* bytes, or raises.                                                       *)
(***************************************************************************)
\* run_eavesdrop: what one parsed packet makes it publish
Publishes(parsed) ==
    LET Snapshot(kind, regs, least) ==
            IF Len(regs) >= least THEN << [ kind |-> kind, regs |-> regs ] >>
            ELSE << >>
    IN  IF parsed.fnc = FNC_READ_STATUS_RESP /\ parsed.has_reg_data
        THEN Snapshot("status",
                      extract_registers(parsed.reg_data, parsed.reg_count),
                      MIN_STATUS_REGS)
        ELSE IF parsed.fnc = FNC_READ_CONFIG_RESP /\ parsed.has_reg_data
        THEN Snapshot("config",
                      extract_registers(parsed.reg_data, parsed.reg_count),
                      MIN_CONFIG_REGS)
        ELSE << >>

\* run_eavesdrop: the for loop over the packets found
RECURSIVE PublishAll(_)
PublishAll(packets) ==
    IF packets = << >> THEN << >>
    ELSE Publishes(Head(packets)[1]) \o PublishAll(Tail(packets))

\* run_eavesdrop: one turn of the while loop with the chunk ser.read returned
EavesdropStep(buffer, chunk) ==
    LET Cap(b) == IF Len(b) > EAVESDROP_CAP
                  THEN SliceFrom(b, Len(b) - EAVESDROP_TAIL) ELSE b
        Trim(joined, packets) ==
            [ buffer |-> Cap(IF packets # << >>
                             THEN SliceFrom(joined, LastEnd(packets))
                             ELSE joined),
              published |-> PublishAll(packets) ]
        Scan(joined) == Trim(joined, find_packets(joined))
    IN  IF chunk = << >> THEN [ buffer |-> buffer, published |-> << >> ]
        ELSE Scan(buffer \o chunk)

\* the bus traffic an eavesdropping session hears
EavesdropStreams ==
    { << "status_full", "config_full" >>,
      << "junk", "config_full", "request", "status", "status_full" >>,
      << "stall_marker", "status_full" >>,
      << "long_junk", "long_junk", "config_full" >> }

InitSession ==
    /\ MODE \in { "direct", "eavesdrop" }
    /\ write_queue = << >>
    /\ cached_config_regs = NoRegs
    /\ conn_open = FALSE
    /\ consecutive_errors = 0
    /\ pc = "connect"
    /\ last = Step("none", NoCommand, NoRegs, Plain("", "none", << >>, NoRegs), 0)
    /\ streak = 0
    /\ ever_ok = FALSE
    /\ rp_pc = "idle"
    /\ rp_expected = 0
    /\ rp_stream = << >>
    /\ rp_arrived = << >>
    /\ rp_buffer = << >>
    /\ rp_result = NoPacket
    /\ rp_flushed = 0
    /\ FnIdle
    /\ HistIdle
    /\ IF MODE = "eavesdrop"
       THEN rp_segments \in EavesdropStreams
       ELSE rp_segments = << >>
    /\ ev_stream = StreamBytes(rp_segments)
    /\ ev_buffer = << >>
    /\ ev_published = << >>
    /\ LoopIdle

\* main calling poll_direct whatever MODE is
PollsAlways == TRUE

\* main: "if MODE == 'eavesdrop': run_eavesdrop(...) else: poll_direct(...)"
PollsDirect == MODE # "eavesdrop"

\* on_ha_command, and the command joins the history of the appended or of
\* the refused commands
Accept(cmd) ==
    /\ Len(accepted) + rejected < MaxAccepted
    /\ on_ha_command(cmd)
    /\ IF MODE = "eavesdrop"
       THEN rejected' = rejected + 1 /\ UNCHANGED accepted
       ELSE accepted' = Append(accepted, cmd) /\ UNCHANGED rejected
    /\ UNCHANGED consumed

\* one turn of the drain loop, and the command write_config_register was
\* called with joins the history
Consume(env) ==
    /\ DrainWrite(env)
    /\ consumed' = Append(consumed, Command(last'.name, last'.value))
    /\ UNCHANGED << accepted, rejected >>

\* run_eavesdrop: ser.read returns up to n bytes (nothing, 300, or the 512
\* asked for when that much is there)
Eavesdrop(n) ==
    /\ pc = "drain"
    /\ LET chunk == SubSeq(ev_stream, 1, Min(n, Len(ev_stream)))
           Done(step) ==
               /\ ev_buffer' = step.buffer
               /\ ev_published' = ev_published \o step.published
       IN  /\ ev_stream' = SubSeq(ev_stream, Len(chunk) + 1, Len(ev_stream))
           /\ Done(EavesdropStep(ev_buffer, chunk))
    /\ last' = Step("eavesdrop", NoCommand, cached_config_regs,
                    Plain("ok", "none", << >>, NoRegs), 0)
    /\ UNCHANGED << MODE, write_queue, cached_config_regs, conn_open,
                    consecutive_errors, pc, streak, ever_ok >>

\* run_eavesdrop: ser.read raises SerialException, which run_eavesdrop
\* raises again for main's handler; the local buffer is gone
EavesdropFails ==
    /\ pc = "drain"
    /\ Handler("serial", "eavesdrop", NoCommand, cached_config_regs,
               Plain("io_error", "serial", << >>, NoRegs))
    /\ ev_buffer' = << >>
    /\ UNCHANGED << write_queue, cached_config_regs, ev_stream, ev_published >>

NextSession ==
    \/ (\E cmd \in Commands : Accept(cmd))
          /\ UNCHANGED << rp_vars, fn_vars, ev_vars, loop_vars >>
    \/ Connecting /\ UNCHANGED << rp_vars, fn_vars, hist_vars, ev_vars, loop_vars >>
    \/ PollsDirect /\ (\E env \in Exchanges(WriteReplies) : Consume(env))
          /\ UNCHANGED << rp_vars, fn_vars, ev_vars, loop_vars >>
    \/ PollsDirect /\ StatusRead /\ UNCHANGED << rp_vars, fn_vars, hist_vars, ev_vars, loop_vars >>
    \/ PollsDirect /\ ConfigRead /\ UNCHANGED << rp_vars, fn_vars, hist_vars, ev_vars, loop_vars >>
    \/ PollsDirect /\ Sleep /\ UNCHANGED << rp_vars, fn_vars, hist_vars, ev_vars, loop_vars >>
    \/ ~PollsDirect /\ (\E n \in { 0, 300, EAVESDROP_READ } : Eavesdrop(n))
          /\ UNCHANGED << rp_vars, fn_vars, hist_vars, loop_vars >>
    \/ ~PollsDirect /\ EavesdropFails
          /\ UNCHANGED << rp_vars, fn_vars, hist_vars, loop_vars >>

SpecSession == InitSession /\ [][NextSession]_vars

(***************************************************************************)
(* main.py: the main loop with its sleeps and the shutdown request.  The    *)
(* steps of the session are those above; between them the polling thread   *)
(* sleeps, and wait_left counts the half seconds still to sleep.  The       *)
(* sleep between polls is taken in slices of half a second, each behind a  *)
(* test of running and of the write queue; the other sleeps are one call   *)
(* of time.sleep.  The wait for a response is inside the exchange steps.   *)
(* cache_fresh tells that the latest config read returned the block and no *)
(* cycle was cut short since.                                              *)
(***************************************************************************)
\* POLL_INTERVAL, seconds (environment; 30 when not set)
PollInterval == 2

\* time.sleep(1.0) after each write and after the status read
INTER_REQUEST_SLEEP == 1

\* time.sleep(0.5), as a number of slices in one second
SLICES_PER_SECOND == 2

\* "while running" is about to be evaluated: main's loop, run_eavesdrop's loop
AtTop ==
    \/ pc = "connect"
    \/ pc = "drain" /\ (last.op = "sleep" \/ MODE = "eavesdrop")

\* no sleep is going on (what a cut sleep between polls left over is not slept)
Awake == wait_left = 0 \/ (pc = "drain" /\ last.op = "sleep")

\* the polling thread is at a step of the session
Turn == Awake /\ (AtTop => running)

\* half seconds of sleep that follow a step ending at position p
Waits(p, step) ==
    IF p = "connect" THEN step.wait * SLICES_PER_SECOND
    ELSE IF p = "sleep" THEN PollInterval * SLICES_PER_SECOND
    ELSE IF step.op \in { "write", "status" }
    THEN INTER_REQUEST_SLEEP * SLICES_PER_SECOND
    ELSE 0

\* the cache after a step: fresh after a config read that returned the block,
\* stale after one that did not and after a cycle that an exception cut short
Fresh(step) ==
    IF step.op = "config" THEN step.path = "ok"
    ELSE IF step.op \in { "write", "status" } /\ step.raised # "none" THEN FALSE
    ELSE cache_fresh

\* the sleep that follows a step of the session
Polled ==
    /\ wait_left' = Waits(pc', last')
    /\ cache_fresh' = Fresh(last')
    /\ UNCHANGED running

\* signal_handler: SIGTERM or SIGINT
signal_handler ==
    /\ running
    /\ running' = FALSE
    /\ UNCHANGED << session_vars, wait_left, cache_fresh >>

\* the slice slept without the test of the write queue
SleepSliceDeaf ==
    /\ pc = "sleep"
    /\ running
    /\ wait_left > 0
    /\ wait_left' = wait_left - 1
    /\ UNCHANGED << session_vars, running, cache_fresh >>

\* main: one turn of "for _ in range(POLL_INTERVAL * 2)" that sleeps
SleepSlice ==
    /\ pc = "sleep"
    /\ running
    /\ write_queue = << >>
    /\ wait_left > 0
    /\ wait_left' = wait_left - 1
    /\ UNCHANGED << session_vars, running, cache_fresh >>

\* main: the loop of slices ends, by a break or after the last slice
SleepEnds ==
    /\ pc = "sleep"
    /\ ~running \/ write_queue # << >> \/ wait_left = 0
    /\ Sleep
    /\ UNCHANGED << running, wait_left, cache_fresh >>

\* half a second of time.sleep(backoff), time.sleep(5) or time.sleep(1.0)
Waiting ==
    /\ pc \in { "connect", "drain", "config" }
    /\ ~Awake
    /\ wait_left' = wait_left - 1
    /\ UNCHANGED << session_vars, running, cache_fresh >>

\* main: "while running" is false; conn.close() and the end of the program
Exit ==
    /\ AtTop
    /\ Awake
    /\ ~running
    /\ pc' = "exited"
    /\ conn_open' = FALSE
    /\ last' = Step("exit", NoCommand, cached_config_regs,
                    Plain("", "none", << >>, NoRegs), 0)
    /\ UNCHANGED << MODE, write_queue, cached_config_regs, consecutive_errors,
                    streak, ever_ok, loop_vars >>

InitLoop ==
    /\ InitSession
    /\ MODE = "eavesdrop" => ev_stream = StreamBytes(<< "status_full", "config_full" >>)

\* main: the connection is closed and the loop comes to conn.connect()
Reconnect ==
    Turn /\ Connecting /\ Polled /\ UNCHANGED << rp_vars, fn_vars, hist_vars, ev_vars >>

\* the sleep of the polling thread goes on or ends
Sleeping ==
    \/ Waiting /\ UNCHANGED << rp_vars, fn_vars, hist_vars, ev_vars >>
    \/ PollsDirect /\ SleepSlice /\ UNCHANGED << rp_vars, fn_vars, hist_vars, ev_vars >>
    \/ PollsDirect /\ SleepEnds /\ UNCHANGED << rp_vars, fn_vars, hist_vars, ev_vars >>

\* the steps of the polling thread
Polling ==
    \/ Reconnect
    \/ Turn /\ PollsDirect /\ Draining /\ Polled
          /\ UNCHANGED << rp_vars, fn_vars, hist_vars, ev_vars >>
    \/ Turn /\ PollsDirect /\ StatusRead /\ Polled
          /\ UNCHANGED << rp_vars, fn_vars, hist_vars, ev_vars >>
    \/ Turn /\ PollsDirect /\ ConfigRead /\ Polled
          /\ UNCHANGED << rp_vars, fn_vars, hist_vars, ev_vars >>
    \/ Turn /\ ~PollsDirect /\ (\E n \in { 0, EAVESDROP_READ } : Eavesdrop(n))
          /\ Polled /\ UNCHANGED << rp_vars, fn_vars, hist_vars >>
    \/ Turn /\ ~PollsDirect /\ EavesdropFails /\ Polled
          /\ UNCHANGED << rp_vars, fn_vars, hist_vars >>
    \/ Sleeping
    \/ Exit /\ UNCHANGED << rp_vars, fn_vars, hist_vars, ev_vars >>

NextLoop ==
    \/ Polling
    \/ pc # "exited" /\ Commanded
          /\ UNCHANGED << rp_vars, fn_vars, hist_vars, ev_vars, loop_vars >>
    \/ pc # "exited" /\ signal_handler
          /\ UNCHANGED << rp_vars, fn_vars, hist_vars, ev_vars >>

\* a sleep of the polling thread comes to its end, and a call of conn.connect()
\* that the loop has come to is made
SpecLoop == InitLoop /\ [][NextLoop]_vars /\ WF_vars(Sleeping) /\ WF_vars(Reconnect)

(***************************************************************************)
(* The properties.                                                         *)
(***************************************************************************)
\* the latest step of the polling thread was a call of write_config_register
WriteEnded == last.op = "write"

\* ... and the call put a request on the wire
WriteSent == WriteEnded /\ last.sent # << >>

\* the entries of the register map with this name
Entries(name) ==
    { CONFIG_REGISTERS[i] : i \in { j \in DOMAIN CONFIG_REGISTERS :
                                      CONFIG_REGISTERS[j].name = name } }

\* the logical value of a numeric user value for a register: tenths for
\* te10, 0/1 for bool, the integer for word
LogicalValue(entry, value) ==
    IF entry.dtype = "te10" THEN Trunc(value.v100, 10)
    ELSE IF entry.dtype = "bool" THEN (IF value.v100 # 0 THEN 1 ELSE 0)
    ELSE Trunc(value.v100, 100)

\* C1: when write_config_register sends a write for register X, the block in
\* the request has as many words as the cache had before the call, and every
\* word of it other than the one at X's offset equals the word of the cache
\* before the call at the same offset.
C1_ReadModifyWriteIsolation ==
    WriteSent =>
        /\ last.sent[HEADER_LEN + PL_REG_COUNT + 1] = Len(last.before)
        /\ Len(last.sent) = HEADER_LEN + PL_DATA_START + (2 * Len(last.before)) + 2
        /\ Len(RequestBlock(last.sent)) = Len(last.before)
        /\ \A e \in Entries(last.name) :
             \A i \in 1..Len(last.before) :
                i # e.offset + 1 => RequestBlock(last.sent)[i] = last.before[i]

\* a write of AmbientMinTemp = -5.0 was sent from the block A: the request
\* carries the new word at offset 7 and the block's other non-zero words
C1_Witness ==
    /\ WriteSent
    /\ last.name = "AmbientMinTemp"
    /\ last.before = DeviceBlockA
    /\ RequestBlock(last.sent)[8] # last.before[8]
    /\ RequestBlock(last.sent)[6] = 450

\* C2: when a write exchange ends with no response or with a transport
\* failure (the call returns or raises), the cached config block after the
\* call equals the cached block before it.
C2_CacheRevertedOnFailure ==
    ( /\ WriteSent
      /\ \/ last.raised = "serial"
         \/ last.raised = "none" /\ last.confirmed = NoRegs )
    => cached_config_regs = last.before

\* C3: write_config_register returns True only if a confirmation response came
\* whose block holds the intended raw word at the target offset; a response
\* whose block does not reach the target offset, or holds another word there,
\* makes it return False.
C3_SuccessOnlyIfVerified ==
    WriteEnded =>
        /\ last.ret =>
             /\ last.confirmed # NoRegs
             /\ last.offset < Len(last.confirmed)
             /\ last.confirmed[last.offset + 1] = last.raw
        /\ ( /\ WriteSent
             /\ last.confirmed # NoRegs
             /\ \/ last.offset >= Len(last.confirmed)
                \/ last.confirmed[last.offset + 1] # last.raw )
           => ~last.ret

\* a write was sent and the confirmation's word at the target offset differs
\* from the intended raw word
Mismatch ==
    /\ WriteSent
    /\ last.confirmed # NoRegs
    /\ last.offset < Len(last.confirmed)
    /\ last.confirmed[last.offset + 1] # last.raw

\* C4 as stated: after a mismatch the cached block equals its content before
\* the write and the write is reported as failed.
C4_MismatchRevertsCache ==
    Mismatch => cached_config_regs = last.before /\ ~last.ret

\* C4, amended: after a mismatch the cached block equals the block carried by
\* the confirmation response and the write is reported as failed.
C4_MismatchKeepsDeviceBlock ==
    Mismatch => cached_config_regs = last.confirmed /\ ~last.ret /\ last.raised = "none"

\* a mismatch after which the cache differs from its content before the write
C4_Witness ==
    /\ Mismatch
    /\ cached_config_regs # last.before
    /\ cached_config_regs = last.confirmed

\* C5: while no config block is cached, a call of write_config_register
\* returns False, sends no bytes and leaves the cache absent.
C5_NoCacheRejectsWrite ==
    (WriteEnded /\ last.before = NoRegs) =>
        /\ ~last.ret
        /\ last.raised = "none"
        /\ last.sent = << >>
        /\ cached_config_regs = NoRegs

\* a valid command was tried with no cached block
C5_Witness ==
    /\ WriteEnded
    /\ last.before = NoRegs
    /\ last.name = "HeatPumpEnabled"
    /\ ~last.ret

\* the command of the latest write call fails validation against the block
\* cached before it: unknown name, non-writable register, value out of range,
\* or target offset outside the cached block
ValidationFailure ==
    /\ WriteEnded
    /\ last.before # NoRegs
    /\ \/ Entries(last.name) = {}
       \/ \E e \in Entries(last.name) :
            \/ ~e.writable
            \/ /\ last.value.kind \in {"num", "bool"}
               /\ \/ LogicalValue(e, last.value) < e.min_val
                  \/ LogicalValue(e, last.value) > e.max_val
            \/ e.offset >= Len(last.before)

\* C6: a write validation failure leaves the cached config block unchanged
\* and sends no bytes.
C6_ValidationFailureIsInert ==
    ValidationFailure =>
        /\ cached_config_regs = last.before
        /\ last.sent = << >>
        /\ ~last.ret

\* TapWaterTemp = 70.0 (above the register's maximum) was tried on block A
C6_Witness ==
    /\ ValidationFailure
    /\ last.name = "TapWaterTemp"
    /\ last.value = NumValue(7000)
    /\ last.before = DeviceBlockA
    /\ cached_config_regs = DeviceBlockA

\* C7: after every accepted config response, from a config read or from a
\* write confirmation, the cached config block equals the register block
\* carried by that response.
C7_CacheIsResponseBlock ==
    ( /\ last.op \in {"write", "config"}
      /\ last.raised = "none"
      /\ last.confirmed # NoRegs
      /\ last.op = "write" => last.ret )
    => cached_config_regs = last.confirmed

\* C8: the k-th consecutive transport failure with no fully successful cycle
\* in between is followed by a wait of min(5k, 60) seconds.
C8_BackoffEscalates ==
    last.raised = "serial" =>
        last.wait = Min(BACKOFF_STEP * streak, BACKOFF_MAX)

\* C9: the first transport failure after a fully successful cycle waits
\* exactly 5 seconds.
C9_FirstFailureWaitsFive ==
    (ever_ok /\ last.raised = "serial" /\ streak = 1) => last.wait = BACKOFF_STEP

\* the index in rp_segments of the first segment that is a valid packet with
\* the expected function code, 0 when there is none
FirstWanted ==
    IF \E i \in DOMAIN rp_segments : SegmentFnc(rp_segments[i]) = rp_expected
    THEN CHOOSE i \in DOMAIN rp_segments :
            /\ SegmentFnc(rp_segments[i]) = rp_expected
            /\ \A j \in 1..(i - 1) : SegmentFnc(rp_segments[j]) # rp_expected
    ELSE 0

\* C10: read_packet returns only a packet with the expected function code,
\* and it is the first such valid packet of the stream in arrival order;
\* while no such packet can be parsed out of the bytes that have arrived the
\* wait goes on, whatever other valid packets have arrived; at the timeout it
\* returns None.
C10_FirstMatchingPacket ==
    /\ rp_pc = "returned" =>
          /\ rp_result # NoPacket
          /\ rp_result.fnc = rp_expected
          /\ FirstWanted # 0
          /\ rp_result = parse_packet(SegmentBytes[rp_segments[FirstWanted]])
    /\ rp_pc \in {"reading", "timeout"} =>
          /\ rp_result = NoPacket
          /\ \A i \in DOMAIN find_packets(rp_arrived) :
                find_packets(rp_arrived)[i][1].fnc # rp_expected

\* read_packet returned the config response that arrived after a status
\* response and in pieces
C10_Witness ==
    /\ rp_pc = "returned"
    /\ rp_expected = FNC_READ_CONFIG_RESP
    /\ rp_segments = << "status", "configA", "configB" >>
    /\ rp_result.fnc = FNC_READ_CONFIG_RESP
    /\ rp_result.reg_data = registers_to_bytes(SubSeq(DeviceBlockA, 1, ShortLen))
    /\ Len(rp_buffer) < Len(rp_arrived)

(***************************************************************************)
(* find_packets                                                            *)
(***************************************************************************)
\* the call of find_packets has returned
Found == fn_op = "find_packets" /\ fn_pc = "done"

\* the 0-based offset at which segment k of a buffer starts
SegmentStart(segments, k) == Len(StreamBytes(SubSeq(segments, 1, k - 1)))

\* the segments of a buffer that are valid packets
RealPackets(segments) ==
    { k \in 1..Len(segments) : SegmentFnc(segments[k]) # 0 }

\* the positions of a buffer that hold the marker and start no valid packet
FalseMarkers(segments) ==
    LET At(buffer) ==
            { i \in 0..(Len(buffer) - 1) :
                /\ buffer[i + 1] = START_BYTE
                /\ \A k \in RealPackets(segments) : i # SegmentStart(segments, k) }
    IN  At(StreamBytes(segments))

\* the (start, end) offsets of the packets find_packets returned
Emitted(packets) ==
    { << packets[i][2] - packets[i][1].total_len, packets[i][2] >> :
        i \in 1..Len(packets) }

\* the buffer is N bytes without the marker, one valid packet, M more bytes
IsResync(segments) ==
    /\ Len(segments) = 3
    /\ \A i \in 1..Len(SegmentBytes[segments[1]]) :
           SegmentBytes[segments[1]][i] # START_BYTE
    /\ RealPackets(segments) = { 2 }

\* C11: from a buffer of N bytes without the marker, one valid packet and M
\* further garbage bytes, find_packets returns exactly one packet, the valid
\* one, and its end offset is N + the length of the packet
C11_Resynchronization ==
    (Found /\ IsResync(fn_in)) =>
        /\ Len(fn_out) = 1
        /\ fn_out[1][2] = Len(SegmentBytes[fn_in[1]]) + Len(SegmentBytes[fn_in[2]])
        /\ fn_out[1][1] = parse_packet(SegmentBytes[fn_in[2]])

\* the resynchronisation has happened past N > 0 bytes with M > 0 bytes
\* behind the packet, among them a marker
C11_Witness ==
    /\ Found
    /\ IsResync(fn_in)
    /\ fn_in[1] = "long_junk"
    /\ fn_in[3] = "false_marker"
    /\ Len(fn_out) = 1

\* C12: when the marker occurs where no packet starts and a complete valid
\* packet is in the buffer too, find_packets returns no packet that starts
\* at the false marker and returns the real packet
C12_FalseMarkerSkipped ==
    (/\ Found
     /\ FalseMarkers(fn_in) # {}
     /\ RealPackets(fn_in) # {}) =>
        /\ \A e \in Emitted(fn_out) : e[1] \notin FalseMarkers(fn_in)
        /\ \A k \in RealPackets(fn_in) :
               << SegmentStart(fn_in, k),
                  SegmentStart(fn_in, k) + Len(SegmentBytes[fn_in[k]]) >>
                   \in Emitted(fn_out)

(***************************************************************************)
(* The write queue                                                         *)
(***************************************************************************)
\* C13: the commands on_ha_command appended are handed to
\* write_config_register in the order of their appends, each once: what was
\* consumed so far followed by what waits in the queue is what was accepted
C13_QueueIsFifo == consumed \o write_queue = accepted

\* two different commands were consumed and a third, appended after the
\* first pop, waits in the queue
C13_Witness ==
    /\ Len(consumed) = 2
    /\ consumed[1] # consumed[2]
    /\ Len(accepted) = 3
    /\ write_queue = << accepted[3] >>

(***************************************************************************)
(* Eavesdrop mode                                                          *)
(***************************************************************************)
\* C14: in eavesdrop mode no step of the session writes a byte to the
\* transport, whatever was received, commanded, raised or reconnected
C14_EavesdropNeverTransmits == MODE = "eavesdrop" => last.sent = << >>

\* an eavesdropping session has published a snapshot, has refused a command
\* and reads again after an error and a reconnect
C14_Witness ==
    /\ MODE = "eavesdrop"
    /\ ev_published # << >>
    /\ rejected > 0
    /\ streak > 0
    /\ conn_open
    /\ last.op = "eavesdrop"

\* C15: in eavesdrop mode on_ha_command appends no command: the write queue
\* is empty in every state
C15_EavesdropQueueEmpty ==
    MODE = "eavesdrop" => (write_queue = << >> /\ accepted = << >>)

\* on_ha_command has refused two commands in eavesdrop mode
C15_Witness ==
    /\ MODE = "eavesdrop"
    /\ rejected = 2
    /\ write_queue = << >>

(***************************************************************************)
(* Building and parsing packets                                            *)
(***************************************************************************)
\* the call of build_read_request has returned and its packet was parsed
Built == fn_op = "build_read_request" /\ fn_pc = "done"

\* C16: parse_packet of what build_read_request built succeeds and returns
\* the hard and soft addresses, the function code, the register start and
\* the register count it was built from, with sub-function 0x80
C16_ReadRequestRoundTrip ==
    Built =>
        /\ fn_out.parsed # NoPacket
        /\ fn_out.parsed.dst_hard = fn_in.dst_hard
        /\ fn_out.parsed.src_hard = fn_in.src_hard
        /\ fn_out.parsed.dst_soft = fn_in.dst_soft
        /\ fn_out.parsed.src_soft = fn_in.src_soft
        /\ fn_out.parsed.fnc = fn_in.fnc
        /\ fn_out.parsed.reg_start = fn_in.reg_start
        /\ fn_out.parsed.reg_count = fn_in.reg_count
        /\ fn_out.parsed.sub_fnc = 128

\* a request with the largest register start and count, addressed to 255 and
\* with the function code of a response, came back from the parser
C16_Witness ==
    /\ Built
    /\ fn_in.reg_start = 65535
    /\ fn_in.reg_count = 255
    /\ fn_in.dst_hard = 255
    /\ fn_in.fnc = FNC_READ_CONFIG_RESP
    /\ fn_out.parsed # NoPacket

\* C17: a packet of build_read_request or build_write_request with any one
\* bit flipped is invalid for parse_packet
C17_SingleBitFlipRejected ==
    (fn_op = "flip" /\ fn_pc = "done") => fn_out = NoPacket

\* the flipped bit was in the register data of a write request
C17_Witness ==
    /\ fn_op = "flip"
    /\ fn_pc = "done"
    /\ fn_in.packet = WriteRequest(DeviceBlockA)
    /\ fn_in.bit = 8 * (HEADER_LEN + PL_DATA_START) + 5
    /\ fn_out = NoPacket

\* the arguments of the status read request
StatusArgs ==
    [ dst_hard |-> 2, src_hard |-> 1, dst_soft |-> 2, src_soft |-> 1,
      fnc |-> 64, reg_start |-> 100, reg_count |-> 50 ]

\* the status read request parses back to its addresses, function code,
\* register start and register count
StatusParsed ==
    /\ fn_out.parsed # NoPacket
    /\ fn_out.parsed.dst_hard = 2
    /\ fn_out.parsed.src_hard = 1
    /\ fn_out.parsed.fnc = 64
    /\ fn_out.parsed.reg_start = 100
    /\ fn_out.parsed.reg_count = 50

\* the request is the seven header bytes ending in len, their checksum, the
\* ten payload bytes and their checksum
StatusBytes(len) ==
    LET header == << 105, 2, 1, 132, 0, 0, len >>
        payload == << 2, 0, 1, 0, 64, 128, 0, 50, 100, 0 >>
    IN  fn_out.packet = header \o << crc8_dvb_s2(header, 0) >>
                        \o payload \o PackBE16(crc16(payload, 0))

\* C18 as stated: the status read request has the header bytes
\* 69 02 01 84 00 00 0D
C18_StatusRequestLength0D ==
    (Built /\ fn_in = StatusArgs) => (StatusBytes(13) /\ StatusParsed)

\* C18: the status read request is 69 02 01 84 00 00 0C, the header checksum
\* F6, the payload 02 00 01 00 40 80 00 32 64 00 and its checksum BD B2 (the
\* length byte counts the ten payload bytes and the two checksum bytes), and
\* it parses back to dst_hard 2, src_hard 1, function code 0x40, register
\* start 100 and register count 50
C18_StatusRequestLength0C ==
    (Built /\ fn_in = StatusArgs) =>
        /\ StatusBytes(12)
        /\ fn_out.packet = << 105, 2, 1, 132, 0, 0, 12, 246,
                              2, 0, 1, 0, 64, 128, 0, 50, 100, 0, 189, 178 >>
        /\ StatusParsed

\* the status read request was built and parsed
C18_Witness == Built /\ fn_in = StatusArgs /\ Len(fn_out.packet) = 20

\* the call of parse_packet has returned
Parsed == fn_op = "parse_packet" /\ fn_pc = "done"

\* C19: parse_packet returns for every byte sequence, and it returns a
\* packet only if the input starts with 0x69, the checksum of bytes 0..6 is
\* byte 7, the declared payload fits in the input and the payload checksum
\* verifies; total_len is then 8 plus the declared payload length
C19_ParseIsExact ==
    (Parsed /\ fn_out # NoPacket) =>
        /\ Len(fn_in) >= HEADER_LEN
        /\ fn_in[1] = 105
        /\ crc8_dvb_s2(SubSeq(fn_in, 1, 7), 0) = fn_in[8]
        /\ HEADER_LEN + fn_in[7] <= Len(fn_in)
        /\ fn_in[7] >= 2
        /\ crc16(SubSeq(fn_in, HEADER_LEN + 1, HEADER_LEN + fn_in[7] - 2), 0)
               = UnpackBE16(fn_in[HEADER_LEN + fn_in[7] - 1],
                            fn_in[HEADER_LEN + fn_in[7]])
        /\ fn_out.total_len = 8 + fn_in[7]

\* parse_packet accepted a packet that is followed by further bytes
C19_Witness ==
    /\ Parsed
    /\ fn_out # NoPacket
    /\ Len(fn_in) > fn_out.total_len

(***************************************************************************)
(* encode_config_value                                                     *)
(***************************************************************************)
\* the call of encode_config_value has returned
EncodeReturned == fn_op = "encode_config_value" /\ fn_pc = "done"

\* the user value has a logical value for the register: every value has one
\* for a boolean register, a number or a numeric string for the others
HasLogical(entry, value) ==
    \/ entry.dtype = "bool"
    \/ value.kind \in { "num", "bool" }
    \/ value.kind = "str" /\ value.s \in DOMAIN NumericStrings

\* the logical value of any user value that has one: tenths for te10, 0/1
\* for bool, the integer for word
LogicalOf(entry, value) ==
    IF entry.dtype = "bool"
    THEN IF value.kind = "str"
         THEN (IF Lower(value.s) \in TrueStrings THEN 1 ELSE 0)
         ELSE (IF value.kind = "nan" \/ value.v100 # 0 THEN 1 ELSE 0)
    ELSE IF value.kind = "str"
    THEN Trunc(NumericStrings[value.s], IF entry.dtype = "te10" THEN 10 ELSE 100)
    ELSE LogicalValue(entry, value)

\* C20: encode_config_value returns (offset, raw) only for a defined,
\* writable register and a logical value within the register's [min, max];
\* it returns None for an unknown name, for a register that is not writable
\* and for a logical value out of range; on success offset is the register's
\* offset and raw is the logical value as a 16-bit two's complement word
C20_EncodeConfigValue ==
    EncodeReturned =>
        /\ fn_out.kind = "ok" =>
               \E e \in Entries(fn_in.name) :
                   /\ e.writable
                   /\ HasLogical(e, fn_in.value)
                   /\ LogicalOf(e, fn_in.value) >= e.min_val
                   /\ LogicalOf(e, fn_in.value) <= e.max_val
                   /\ fn_out.offset = e.offset
                   /\ fn_out.raw \in 0..65535
                   /\ fn_out.raw = IF LogicalOf(e, fn_in.value) < 0
                                   THEN 65536 + LogicalOf(e, fn_in.value)
                                   ELSE LogicalOf(e, fn_in.value)
        /\ Entries(fn_in.name) = {} => fn_out.kind = "none"
        /\ \A e \in Entries(fn_in.name) :
               ( \/ ~e.writable
                 \/ /\ HasLogical(e, fn_in.value)
                    /\ \/ LogicalOf(e, fn_in.value) < e.min_val
                       \/ LogicalOf(e, fn_in.value) > e.max_val )
                   => fn_out.kind = "none"

\* a negative temperature within the range was encoded as its two's
\* complement word
C20_Witness ==
    /\ EncodeReturned
    /\ fn_in.name = "AmbientMinTemp"
    /\ fn_in.value = NumValue(-500)
    /\ fn_out = Encoded(7, 65486)

\* C21: for every writable te10 register and every whole number of tenths in
\* its range, encode_config_value gives the 16-bit two's complement of the
\* tenths, parse_config_registers reads that word back as the value that was
\* encoded, and encoding the parsed value gives the same word again.
C21_Te10RoundTrip ==
    (fn_op = "round_trip" /\ fn_pc = "done") =>
        /\ fn_out.encoded.kind = "ok"
        /\ fn_out.encoded.raw = (fn_in.value.v100 \div 10) % 65536
        /\ fn_out.decoded = fn_in.value
        /\ fn_out.again = fn_out.encoded

\* a negative temperature went through the round trip as a word above 32767
C21_Witness ==
    /\ fn_op = "round_trip"
    /\ fn_pc = "done"
    /\ fn_in.value.v100 < 0
    /\ fn_out.encoded.kind = "ok"
    /\ fn_out.encoded.raw >= 32768
    /\ fn_out.decoded = fn_in.value

\* C22: encode_config_value returns no result for a register that holds a
\* time-program word (config offsets 8 to 13), whatever the value.
C22_TimeProgramNotWritable ==
    (/\ fn_op = "encode_config_value"
     /\ fn_pc = "done"
     /\ \E e \in Entries(fn_in.name) : e.offset \in 8..13)
        => fn_out.kind # "ok"

\* C23: a write whose value has no numeric reading, for a writable numeric
\* register and with a cached block, ends without an exception and reports
\* failure; it sends nothing, the cache is as before, the connection stays
\* open and the cycle goes on.
C23_WrongShapeRejected ==
    (/\ WriteEnded
     /\ last.before # NoRegs
     /\ RaisesOnNumber(last.value)
     /\ \E e \in Entries(last.name) : e.writable /\ e.dtype # "bool")
        => /\ last.raised = "none"
           /\ ~last.ret
           /\ last.sent = << >>
           /\ cached_config_regs = last.before
           /\ conn_open
           /\ pc = "drain"

\* the device stays silent: read_packet runs into its timeout
Silent == Exchange(FALSE, "silent")

\* C24: a status or config read that gets no response before the timeout
\* leaves the connection open and counts no error, hands no registers to the
\* publisher, leaves the cached config block as it was, and the cycle goes on
\* to its next step (the config read, the sleep).
C24_ReadTimeoutContinues ==
    [][ (ReadStatus(Silent) \/ ReadConfig(Silent)) =>
            /\ conn_open' /\ conn_open
            /\ consecutive_errors' <= consecutive_errors
            /\ streak' <= streak
            /\ last'.raised = "none"
            /\ last'.confirmed = NoRegs
            /\ cached_config_regs' = cached_config_regs
            /\ pc' = (IF pc = "drain" THEN "config" ELSE "sleep") ]_vars

\* a config read timed out with a cached block, which is still there
C24_Witness ==
    /\ last.op = "config"
    /\ last.path = "timeout"
    /\ last.confirmed = NoRegs
    /\ cached_config_regs # NoRegs
    /\ cached_config_regs = last.before
    /\ conn_open
    /\ pc = "sleep"

\* the latest step of the polling thread ended in a transport failure
TransportFailure == last.raised = "serial"

\* the latest step was a reconnect attempt later than the failure that was the
\* n-th error in a row
Reconnected(n) ==
    /\ last.op = "connect"
    /\ last.raised = "none" \/ consecutive_errors > n

\* C25: the main loop ends only after a shutdown request, whatever failed
\* before (a transport failure, a read without response, a value that cannot
\* be encoded); a transport failure leaves the connection closed and the loop
\* at the reconnect, and unless shutdown is requested a reconnect attempt
\* follows it.
C25_LoopSurvives ==
    /\ [](pc = "exited" => ~running)
    /\ [](TransportFailure => ~conn_open /\ pc = "connect")
    /\ \A n \in 1..MaxErrors :
          (TransportFailure /\ consecutive_errors = n)
              ~> (Reconnected(n) \/ ~running)

\* the connection was opened again after a status read had failed, a read had
\* run into its timeout and a command value had raised
C25_Witness ==
    /\ running
    /\ last.op = "connect"
    /\ last.raised = "none"
    /\ conn_open
    /\ streak > 0
    /\ consecutive_errors = 0
    /\ ever_ok

\* the polling thread sleeps on for another half second
SliceSlept == wait_left' = wait_left - 1 /\ UNCHANGED << pc, last >>

\* C26: once shutdown is requested, the slice of a wait that was under way
\* is the last one of that wait: when it has passed, the wait is over.
C26_ShutdownEndsWait == [][(~running /\ SliceSlept) => wait_left' = 0]_vars

\* the polling thread took the step op
Took(op) == last' # last /\ last'.op = op

\* C27: a cycle goes from the drain loop to the status read, the config read
\* and the sleep, and only an exception takes it elsewhere (to the reconnect);
\* a write takes the head of the queue and leaves the rest queued; the status
\* request is sent only when the queue is empty; the config read follows the
\* status read of the same cycle and refreshes the cache with the block it
\* returned; the sleep follows the config read.
C27_CycleOrder ==
    [][ /\ pc' # pc =>
              \/ << pc, pc' >> \in { << "connect", "drain" >>, << "drain", "config" >>,
                                    << "config", "sleep" >>, << "sleep", "drain" >> }
              \/ pc' = "connect" /\ last'.raised # "none"
        /\ Took("write") =>
              /\ pc = "drain"
              /\ write_queue # << >>
              /\ write_queue' = Tail(write_queue)
              /\ last'.name = Head(write_queue).name
        /\ Took("status") => pc = "drain" /\ write_queue = << >>
        /\ Took("config") =>
              /\ pc = "config"
              /\ last.op = "status"
              /\ last'.path = "ok" => cached_config_regs' = last'.confirmed
        /\ Took("sleep") => pc = "sleep" /\ last.op = "config" ]_vars

\* a config read has refreshed the cache with a different block while a
\* command queued during the cycle waits for the next one
C27_Witness ==
    /\ last.op = "config"
    /\ last.path = "ok"
    /\ pc = "sleep"
    /\ cached_config_regs = last.confirmed
    /\ last.before # NoRegs
    /\ last.before # cached_config_regs
    /\ write_queue # << >>

\* the sleep between polls has a reason to end early
Interrupted == pc = "sleep" /\ (write_queue # << >> \/ ~running)

\* C28: during the sleep between polls no further slice is slept once a write
\* is queued or shutdown is requested, and the sleep then ends; the cycle
\* that follows a sleep with a write in the queue begins with that write,
\* before any read (or the program ends, if shutdown was requested as well).
C28_SleepInterrupted ==
    /\ [][Interrupted => ~SliceSlept]_vars
    /\ [][ (pc = "drain" /\ last.op = "sleep" /\ write_queue # << >> /\ last' # last)
              => \/ last'.op = "write" /\ last'.name = Head(write_queue).name
                 \/ last'.op = "exit" /\ ~running ]_vars
    /\ Interrupted ~> pc # "sleep"

\* the sleep was cut by a queued write with slices still to sleep
C28_Witness ==
    /\ pc = "drain"
    /\ last.op = "sleep"
    /\ wait_left > 0
    /\ write_queue # << >>
    /\ running

\* the steps of an exchange, in their order
ExchangeOrder ==
    { << "flush", "send" >>, << "send", "reading" >>, << "send", "raised" >>,
      << "reading", "returned" >>, << "reading", "timeout" >>,
      << "returned", "flush" >>, << "timeout", "flush" >>, << "raised", "flush" >> }

\* C29: an exchange is a flush, then the send, then the wait, and the next
\* exchange begins only when the wait has ended (or the send has raised), so
\* there is never more than the one request of the exchange in its wait; what
\* the transport holds after the flush, what read_packet reads and the packet
\* it returns all arrived after the flush.
C29_OneExchangeAtATime ==
    /\ [][rp_pc' # rp_pc => << rp_pc, rp_pc' >> \in ExchangeOrder]_vars
    /\ [](rp_pc \in { "send", "reading" }
             => rp_arrived \o rp_stream = StreamBytes(rp_segments))
    /\ [](rp_pc \in { "returned", "timeout" }
             => rp_arrived = SubSeq(StreamBytes(rp_segments), 1, Len(rp_arrived)))
    /\ [](rp_pc = "returned"
             => /\ rp_result.fnc = rp_expected
                /\ \E i \in DOMAIN rp_segments :
                      rp_result = parse_packet(SegmentBytes[rp_segments[i]]))

\* a response was returned in an exchange whose flush had discarded bytes
C29_Witness ==
    /\ rp_pc = "returned"
    /\ rp_flushed > 0
    /\ rp_result # NoPacket
    /\ rp_result.fnc = rp_expected

\* C30: a write request is sent only from a fresh cache: the latest config
\* read returned the block and no cycle has been cut short since.
C30_WriteNeedsFreshCache ==
    [][(Took("write") /\ last'.sent # << >>) => cache_fresh]_vars


\* the keys every status snapshot is said to hold
StatusKeys ==
    { "T1", "T2", "T3", "T4", "T5", "T6", "T7", "T8", "T9", "T10",
      "FanON", "CirculationPumpON", "HeatPumpON", "CompressorON", "HeaterEON",
      "IsManual", "EV1", "WaitingStatus" }

\* C31: every status snapshot handed to the publisher, by poll_direct after a
\* status read that returned registers or by run_eavesdrop for a status
\* response it heard, holds T1..T10, the five flags of StatusBits, IsManual,
\* EV1 and WaitingStatus.
C31_StatusSnapshotComplete ==
    /\ (last.op = "status" /\ last.path = "ok")
          => StatusKeys \subseteq DOMAIN parse_status_registers(last.confirmed)
    /\ \A i \in DOMAIN ev_published :
          ev_published[i].kind = "status"
             => StatusKeys \subseteq DOMAIN parse_status_registers(ev_published[i].regs)


\* the byte of a request at a payload position
PayloadByte(request, position) == request[HEADER_LEN + position + 1]

\* C32: every write request put on the wire has function code 0x60,
\* sub-function 0xA0, register start 300, a register count equal to the
\* number of cached registers, and carries two bytes for each of them: the
\* whole cached block with the one register replaced.  No request with the
\* status function code 0x40 carries sub-function 0xA0.
C32_WriteRequestShape ==
    /\ (last.op = "write" /\ last.sent # << >>)
          => /\ PayloadByte(last.sent, PL_FNC) = FNC_READ_CONFIG_REQ
             /\ PayloadByte(last.sent, PL_SUB_FNC) = SUB_FNC_WRITE
             /\ PayloadByte(last.sent, PL_REG_START_LO)
                   + 256 * PayloadByte(last.sent, PL_REG_START_HI) = CONFIG_REG_BASE
             /\ PayloadByte(last.sent, PL_REG_COUNT) = Len(last.before)
             /\ Len(last.sent) = HEADER_LEN + PL_DATA_START + 2 * Len(last.before) + 2
             /\ RequestBlock(last.sent)
                   = SetRegister(last.before, last.offset, last.raw)
    /\ (last.sent # << >> /\ PayloadByte(last.sent, PL_FNC) = FNC_READ_STATUS_REQ)
          => PayloadByte(last.sent, PL_SUB_FNC) # SUB_FNC_WRITE

\* a write request went out for a cache of BlockLen registers, and a status
\* request went out in another step
C32_Witness ==
    /\ last.op = "write"
    /\ last.sent # << >>
    /\ Len(last.before) = BlockLen
    /\ ever_ok


\* C33: find_packets terminates on every finite buffer.  Each iteration
\* of its loop either stops the scan or moves the scan position strictly
\* forward: to the end of the packet when the candidate parsed, to one byte
\* past the candidate marker when it did not.  The position never passes
\* the end of the buffer, so the distance to the end is a variant that
\* bounds the number of iterations by the length of the buffer; the packets
\* at the end are those of find_packets.
C33_ScanTerminates ==
    /\ [][ \/ fn_pc' = "done" /\ fn_out' = fn_out
           \/ /\ fn_pc' = "call"
              /\ Len(fn_in) - fn_out'.pos < Len(fn_in) - fn_out.pos
              /\ Len(fn_in) - fn_out'.pos >= 0
              /\ \/ /\ Len(fn_out'.packets) = Len(fn_out.packets) + 1
                    /\ fn_out'.pos
                         = FindStart(fn_in, fn_out.pos)
                             + fn_out'.packets[Len(fn_out'.packets)][1].total_len
                 \/ /\ fn_out'.packets = fn_out.packets
                    /\ fn_out'.pos = FindStart(fn_in, fn_out.pos) + 1 ]_vars
    /\ [](fn_pc = "done" => fn_out.packets = find_packets(fn_in))

\* the scan ended after it stepped over three markers that start no packet
\* and found two packets
C33_Witness ==
    /\ fn_pc = "done"
    /\ fn_in = StreamBytes(<< "lone_marker", "lone_marker", "false_marker",
                              "lone_marker", "status", "bad_crc", "configA" >>)
    /\ Len(fn_out.packets) = 2
    /\ fn_out.pos = Len(fn_in)


\* the number of bytes of the bus stream that ser.read has returned so far
Heard == Len(StreamBytes(rp_segments)) - Len(ev_stream)

\* what the segments wholly inside the first heard bytes should have made
\* run_eavesdrop publish, in stream order
RECURSIVE Due(_, _)
Due(segments, heard) ==
    IF segments = << >> THEN << >>
    ELSE IF Len(SegmentBytes[Head(segments)]) > heard THEN << >>
    ELSE (IF SegmentFnc(Head(segments)) \in { FNC_READ_STATUS_RESP, FNC_READ_CONFIG_RESP }
          THEN Publishes(parse_packet(SegmentBytes[Head(segments)]))
          ELSE << >>)
         \o Due(Tail(segments), heard - Len(SegmentBytes[Head(segments)]))

\* the bytes heard behind the last segment that is a valid packet
RECURSIVE Unconsumed(_, _)
Unconsumed(segments, heard) ==
    IF segments = << >> \/ Len(SegmentBytes[Head(segments)]) > heard THEN heard
    ELSE IF \E i \in DOMAIN segments :
                /\ SegmentFnc(segments[i]) # 0
                /\ Len(StreamBytes(SubSeq(segments, 1, i))) <= heard
    THEN Unconsumed(Tail(segments), heard - Len(SegmentBytes[Head(segments)]))
    ELSE heard

\* C34: in eavesdrop mode, as long as no read failed, every valid status or
\* config response that has arrived whole and carries the minimum number of
\* registers has been published once, in stream order, however the reads
\* split the stream; requests are never published; the bytes of the
\* packets found are no longer in the buffer.
C34_EavesdropForwardsOnce ==
    (MODE = "eavesdrop" /\ streak = 0)
       => /\ ev_published = Due(rp_segments, Heard)
          /\ Len(ev_buffer) <= Unconsumed(rp_segments, Heard)


\* the keys of a status snapshot with the offset of the word each is read from
StatusKeyOffsets ==
    { << "Year", 0 >>, << "Month", 0 >>, << "Day", 1 >>, << "Weekday", 1 >>,
      << "Hour", 2 >>, << "Minute", 2 >>, << "Second", 3 >> }
    \cup { << STATUS_REGISTERS[i].name, STATUS_REGISTERS[i].offset >> :
             i \in { j \in DOMAIN STATUS_REGISTERS : STATUS_REGISTERS[j].offset >= 4 } }
    \cup { << STATUS_BITMASKS[i].name, 14 >> : i \in DOMAIN STATUS_BITMASKS }

\* the keys of a config snapshot with the offset of the last word each needs
ConfigKeyOffsets ==
    { << CONFIG_REGISTERS[i].name, CONFIG_REGISTERS[i].offset >> :
        i \in DOMAIN CONFIG_REGISTERS }
    \cup { << "TimeProgramHPM_F", 9 >>, << "TimeProgramHPSat", 11 >>,
           << "TimeProgramHPSun", 13 >> }

\* C35: decoding a block of n words, for any n >= 0, returns a snapshot
\* that holds exactly the fields whose words lie below n: a status flag iff
\* word 14 was received, a time-program string iff both of its words were;
\* the fields beyond the block are left out.
C35_DecodeOmitsBeyondLength ==
    fn_pc = "done"
       => /\ fn_op = "parse_status_registers"
               => DOMAIN fn_out = { k[1] : k \in { q \in StatusKeyOffsets : q[2] < Len(fn_in) } }
          /\ fn_op = "parse_config_registers"
               => DOMAIN fn_out = { k[1] : k \in { q \in ConfigKeyOffsets : q[2] < Len(fn_in) } }

\* a config block of 13 words was decoded: the string of the first two
\* time programs is there, the one of the third, whose low word is missing,
\* is not
C35_Witness ==
    /\ fn_pc = "done"
    /\ fn_op = "parse_config_registers"
    /\ Len(fn_in) = 13
    /\ "TimeProgramHPSat" \in DOMAIN fn_out
    /\ "TimeProgramHPSun_hi" \in DOMAIN fn_out
    /\ "TimeProgramHPSun" \notin DOMAIN fn_out


\* C36: both checksums can be computed piece by piece through the seed: the
\* checksum of a followed by b from seed 0 equals the checksum of b seeded
\* with the checksum of a, for crc8_dvb_s2 and for crc16; the header
\* checksum stays within 8 bits and the payload checksum within 16.
C36_ChecksumsIncremental ==
    (fn_pc = "done" /\ fn_op = "checksum")
       => /\ fn_out.crc8_whole = fn_out.crc8_seeded
          /\ fn_out.crc8_whole \in 0..255
          /\ fn_out.crc16_whole = fn_out.crc16_seeded
          /\ fn_out.crc16_whole \in 0..65535

\* both checksums were computed over two non-empty pieces, and the seed
\* mattered: the checksum of b alone from seed 0 is another value
C36_Witness ==
    /\ fn_pc = "done"
    /\ fn_op = "checksum"
    /\ Len(fn_in.a) = MaxBytes
    /\ Len(fn_in.b) = MaxBytes
    /\ fn_out.crc8_whole # crc8_dvb_s2(fn_in.b, 0)
    /\ fn_out.crc16_whole # crc16(fn_in.b, 0)
    /\ fn_out.crc16_whole > 255


\* the request of a step is a write-back (sub-function 0xA0)
IsWriteRequest(sent) ==
    sent # << >> /\ PayloadByte(sent, PL_SUB_FNC) = SUB_FNC_WRITE

\* C37: a command accepted into the queue causes at most one write request.
\* The step that hands a command to write_config_register takes it from the
\* head of the queue for good, whether the write is rejected, fails, times
\* out or is cut off by a transport failure; only such a step puts a write
\* request on the wire, and only the commands that arrive make the queue
\* grow.
C37_NoRetry ==
    [][ /\ consumed' # consumed
           => /\ write_queue # << >>
              /\ consumed' = Append(consumed, Head(write_queue))
              /\ write_queue' = Tail(write_queue)
              /\ last'.op = "write"
              /\ last'.sent # << >> => IsWriteRequest(last'.sent)
        /\ (consumed' = consumed /\ last' # last) => ~IsWriteRequest(last'.sent)
        /\ accepted' = accepted
           => \E k \in 0..Len(write_queue) :
                 write_queue' = SubSeq(write_queue, k + 1, Len(write_queue))
        /\ Len(consumed') <= Len(accepted') ]_vars

\* the only command accepted was sent once and the transport failed during
\* the exchange; the queue is empty and the loop is about to reconnect
C37_Witness ==
    /\ Len(accepted) = 1
    /\ consumed = accepted
    /\ write_queue = << >>
    /\ last.op = "write"
    /\ IsWriteRequest(last.sent)
    /\ last.raised = "serial"
    /\ pc = "connect"


\* the packets lie in the buffer one behind the other: each starts at or
\* behind the end of the one before, ends inside the buffer, starts with
\* the marker, and is what parse_packet makes of the bytes from its start
\* to its end
InBufferOrder(buffer, packets) ==
    \A i \in DOMAIN packets :
        /\ packets[i][2] <= Len(buffer)
        /\ packets[i][2] - packets[i][1].total_len
              >= (IF i = 1 THEN 0 ELSE packets[i - 1][2])
        /\ packets[i][1].total_len > 0
        /\ buffer[packets[i][2] - packets[i][1].total_len + 1] = START_BYTE
        /\ parse_packet(Slice(buffer, packets[i][2] - packets[i][1].total_len,
                              packets[i][2])) = packets[i][1]

\* C38: the packets find_packets returns are in buffer order with strictly
\* increasing end offsets and do not overlap; each end offset is within the
\* buffer, and the bytes buffer[end - total_len : end] of each start with
\* 0x69 and are accepted by parse_packet as that packet.
C38_PacketsOrdered ==
    Found => InBufferOrder(StreamBytes(fn_in), fn_out)

\* two packets were found with a marker that starts no packet between them
C38_Witness ==
    /\ Found
    /\ fn_in = << "status", "lone_marker", "configA" >>
    /\ Len(fn_out) = 2
    /\ fn_out[2][2] - fn_out[2][1].total_len > fn_out[1][2]


\* poll_direct is in its drain loop with a command waiting
InDrain == MODE = "direct" /\ pc = "drain" /\ write_queue # << >>

\* the drain loop is over: the status read was made, or an exception or a
\* shutdown request ended the cycle
DrainOver == pc \in { "config", "connect", "exited" }

\* C39: the drain loop of every cycle ends and the cycle comes to the status
\* read, whatever commands on_ha_command appends meanwhile.  Stated for the
\* runs in which the loop keeps moving (again and again it starts the pause
\* after a request, and again and again the pause is over): from a drain
\* loop with a command waiting, the status read, or the end of the cycle by
\* an exception or a shutdown, follows.
C39_DrainTerminates ==
    ([]<>(wait_left > 0) /\ []<>(wait_left = 0)) => (InDrain ~> DrainOver)

\* the packet's payload fits the length byte, the length byte tells its
\* true length, and parse_packet accepts the packet whole
WellFormed(packet) ==
    /\ Len(packet) - HEADER_LEN <= 255
    /\ packet[7] = Len(packet) - HEADER_LEN
    /\ parse_packet(packet) # NoPacket
    /\ parse_packet(packet).total_len = Len(packet)

\* C40: every write request built from a cached block is a well-formed
\* packet.  A cached block comes from a response whose payload length fits
\* one byte, so the write request's payload is at most 255 bytes, the length
\* byte of its header is its true payload length (no wrap modulo 256), and
\* parse_packet accepts it with total_len equal to the packet's length.
C40_WriteRequestWellFormed ==
    (last.op = "write" /\ last.sent # << >>) => WellFormed(last.sent)

\* a write request went out for the longest block a response can fill the
\* cache with (a payload of 254 bytes); a response with one register more
\* is no packet and caches nothing
C40_Witness ==
    /\ last.op = "write"
    /\ last.sent # << >>
    /\ Len(last.before) = MaxBlock
    /\ Len(last.sent) = HEADER_LEN + 254
    /\ last.ret
    /\ CachedFrom(MaxBlock + 1) = NoRegs

====
